---- MODULE Spec2Model ----
(***************************************************************************)
(* Product fulfillment tracking of the PIXSHOP image generator backend.    *)
(*                                                                         *)
(* The model follows the Express handlers that save a generated image or   *)
(* a generated description against a Product document and move the         *)
(* document from 'Pending' to 'Fulfilled'.  Two revisions of the server    *)
(* are kept in the repository and both are modelled:                       *)
(*   - src/unnamed/part_003 (lines 1-325): image and description saves,    *)
(*     checkFulfillment over six slots;                                    *)
(*   - src/backend/server.js: image saves only, checkFulfillment also      *)
(*     reads 'Pre-Image URL'.                                              *)
(* The generate-image endpoint with its fallback over the Imagen models is *)
(* modelled too, for the current server and for the earlier one kept at    *)
(* the end of part_003, and so are save requests that overlap in time.     *)
(* Strings are TLA+ strings, so the handlers' string operations            *)
(* (startsWith, split, the format regex, template literals) are computed.  *)
(***************************************************************************)
EXTENDS Integers, Sequences, FiniteSets, TLC

VARIABLES
    store,      \* the Google_sheet_data collection: SKU -> Product document
    files,      \* public/images: file name -> bytes written
    now,        \* the wall clock read by new Date()
    res,        \* the response sent to the last save request
    hist,       \* the image saves answered 200 so far (kept where a property needs them)
    uploads,    \* uploads/: the reference images multer has stored
    calls,      \* the outbound predict calls of the last generate-image request
    genReq,     \* the last generate-image request
    genRes,     \* the response sent to the last generate-image request
    textCalls,  \* the outbound generateContent calls of the last generate-description request
    textReq,    \* the last generate-description request
    textRes,    \* the response sent to the last generate-description request
    procs,      \* the save requests in flight, when requests overlap
    isSaving,       \* client: useState(false), disables the save buttons
    skuInput,       \* client: the SKU typed in the save modal
    generatedImage, \* client: the blob URL of the generated image, or null
    showSaveModal,  \* client: the save modal is open
    sent,           \* client: the update-product-image requests fetched so far
    click           \* client: the handleConfirmSave call in progress

\* The variables of the generate-description endpoint.
textVars == <<textCalls, textReq, textRes>>

\* The variables of the two generation endpoints.
genVars == <<uploads, calls, genReq, genRes, textVars>>

\* The variables of the React client.
clientVars == <<isSaving, skuInput, generatedImage, showSaveModal, sent, click>>

vars == <<store, files, now, res, hist, genVars, procs, clientVars>>

(***************************************************************************)
(* Bounds of the model.                                                    *)
(***************************************************************************)
\* The clock takes the values 1..MaxClock.
MaxClock == 2

\* The record of accepted image saves holds at most MaxHist entries.
MaxHist == 3

\* At most MaxProcs save requests are in flight at a time.
MaxProcs == 2
MaxClicks == 2

(***************************************************************************)
(* JavaScript values.                                                      *)
(***************************************************************************)
\* null, the schema default of every String path.
Null == "<null>"

\* undefined, e.g. the element [1] of a one-element array.
Undefined == "<undefined>"

\* Truthiness of a String-or-null value: null, undefined and '' are falsy.
Truthy(v) == v \notin {Null, Undefined, ""}

\* String.prototype.startsWith
startsWith(s, p) == Len(s) >= Len(p) /\ SubSeq(s, 1, Len(p)) = p

\* String.prototype.indexOf for a one-character needle, 1-based; 0 if absent.
indexOf(s, c) ==
    LET hits == {i \in 1..Len(s) : SubSeq(s, i, i) = c}
    IN  IF hits = {} THEN 0 ELSE CHOOSE i \in hits : \A j \in hits : i <= j

\* s.split(c)[0]
splitFirst(s, c) ==
    LET k == indexOf(s, c)
    IN  IF k = 0 THEN s ELSE SubSeq(s, 1, k - 1)

\* s.split(c)[1]: the text between the first and the second c; undefined
\* when s holds no c.
splitSecond(s, c) ==
    LET k == indexOf(s, c)
    IN  IF k = 0 THEN Undefined
        ELSE splitFirst(SubSeq(s, k + 1, Len(s)), c)

(***************************************************************************)
(* The Product schema.                                                     *)
(***************************************************************************)
\* The paths of productSchema.
SchemaPaths ==
    {"SKU", "Status", "Pre-Image URL", "Category",
     "Wax Image URL", "Cast Image URL", "Final Image URL",
     "Wax Description", "Cast Description", "Final Description",
     "Created At"}

\* productSchema.path(name): truthy exactly for the declared paths.
schemaPath(name) == name \in SchemaPaths

\* The three image slots and the three description slots.
ImageSlots == {"Wax Image URL", "Cast Image URL", "Final Image URL"}
DescSlots  == {"Wax Description", "Cast Description", "Final Description"}
SixSlots   == ImageSlots \cup DescSlots

\* A document as the external ingestion creates it: schema defaults, the
\* given SKU, and whatever Pre-Image URL and Category the sheet carried.
NewProduct(sku, pre, cat) ==
    [f \in SchemaPaths |->
        CASE f = "SKU"           -> sku
          [] f = "Status"        -> "Pending"
          [] f = "Pre-Image URL" -> pre
          [] f = "Category"      -> cat
          [] f = "Created At"    -> 0
          [] OTHER               -> Null]

(***************************************************************************)
(* Fulfillment check and status transition (part_003).                     *)
(***************************************************************************)
\* checkFulfillment with 'Final Description' left out of the chain.
checkFulfillmentFive(product) ==
    /\ Truthy(product["Wax Image URL"])
    /\ Truthy(product["Cast Image URL"])
    /\ Truthy(product["Final Image URL"])
    /\ Truthy(product["Wax Description"])
    /\ Truthy(product["Cast Description"])

\* checkFulfillment(product): the && chain over the six slots, as a boolean.
checkFulfillment(product) ==
    LET urlsFilled  == /\ Truthy(product["Wax Image URL"])
                       /\ Truthy(product["Cast Image URL"])
                       /\ Truthy(product["Final Image URL"])
        descsFilled == /\ Truthy(product["Wax Description"])
                       /\ Truthy(product["Cast Description"])
                       /\ Truthy(product["Final Description"])
    IN  urlsFilled /\ descsFilled

\* The transition written as a ternary on Status, which resets a Fulfilled
\* document: product.Status = (filled && pending) ? 'Fulfilled' : 'Pending'.
recomputeStatusReset(product, t) ==
    IF checkFulfillment(product) /\ product["Status"] = "Pending"
    THEN [product EXCEPT !["Status"] = "Fulfilled", !["Created At"] = t]
    ELSE [product EXCEPT !["Status"] = "Pending"]

\* The transition with the timestamp assignment outside the if block.
recomputeStatusStampAlways(product, t) ==
    IF checkFulfillment(product) /\ product["Status"] = "Pending"
    THEN [product EXCEPT !["Status"] = "Fulfilled", !["Created At"] = t]
    ELSE [product EXCEPT !["Created At"] = t]

\* The transition without the Status === 'Pending' guard.
recomputeStatusNoGuard(product, t) ==
    IF checkFulfillment(product)
    THEN [product EXCEPT !["Status"] = "Fulfilled", !["Created At"] = t]
    ELSE product

\* The transition that never fires before a Pre-Image URL is present.
recomputeStatusNeedsPre(product, t) ==
    IF /\ checkFulfillment(product) /\ Truthy(product["Pre-Image URL"])
       /\ product["Status"] = "Pending"
    THEN [product EXCEPT !["Status"] = "Fulfilled", !["Created At"] = t]
    ELSE product

\* The block both save handlers run after the slot assignment:
\*   if (checkFulfillment(product) && product.Status === 'Pending') {...}
\* t is the value of new Date().
recomputeStatus(product, t) ==
    IF checkFulfillment(product) /\ product["Status"] = "Pending"
    THEN [product EXCEPT !["Status"] = "Fulfilled", !["Created At"] = t]
    ELSE product

(***************************************************************************)
(* Storage: the collection and the public image directory.                 *)
(***************************************************************************)
\* A lookup that creates the document it does not find (findOneAndUpdate with
\* upsert).
findOneOrCreate(st, sku) ==
    IF sku \in DOMAIN st THEN <<st[sku]>> ELSE <<NewProduct(sku, Null, Null)>>

\* Product.findOne({ 'SKU': sku }): the document as a one-element sequence,
\* or the empty sequence for null.
findOne(st, sku) == IF sku \in DOMAIN st THEN <<st[sku]>> ELSE <<>>

\* A save that writes the whole in-memory document over the stored one.
saveWholeDocument(st, loaded, product) ==
    [s \in DOMAIN st \cup {product["SKU"]} |->
        IF s = product["SKU"] THEN product ELSE st[s]]

\* A save that fills empty paths of the stored document only and never
\* replaces a value that is there.
saveFillOnly(st, loaded, product) ==
    [s \in DOMAIN st \cup {product["SKU"]} |->
        IF s # product["SKU"] THEN st[s]
        ELSE IF s \notin DOMAIN st THEN product
        ELSE [f \in DOMAIN product |->
                 IF /\ product[f] # loaded[f]
                    /\ (f \in DOMAIN st[s] /\ f \notin {"SKU", "Status", "Created At"}
                           => st[s][f] = Null)
                 THEN product[f] ELSE st[s][f]]]

\* product.save() on a document that findOne returned as loaded and the
\* handler has turned into product: mongoose sends an update of the stored
\* document that sets the modified paths, i.e. the paths whose value is no
\* more the loaded one, and leaves every other path of the stored document
\* as it is.  (A document that is not in the collection is inserted whole.)
save(st, loaded, product) ==
    [s \in DOMAIN st \cup {product["SKU"]} |->
        IF s # product["SKU"] THEN st[s]
        ELSE IF s \notin DOMAIN st THEN product
        ELSE [f \in DOMAIN product |->
                 IF product[f] # loaded[f] THEN product[f] ELSE st[s][f]]]

\* A write that leaves an existing file as it is (the flag 'wx' with the
\* error swallowed).
writeFileSyncKeep(fs, filename, bytes) ==
    IF filename \in DOMAIN fs THEN fs
    ELSE [n \in DOMAIN fs \cup {filename} |-> IF n = filename THEN bytes ELSE fs[n]]

\* fs.writeFileSync(imagePath, imageBuffer): creates or overwrites the file.
writeFileSync(fs, filename, bytes) ==
    [n \in DOMAIN fs \cup {filename} |-> IF n = filename THEN bytes ELSE fs[n]]

\* Buffer.from(base64Data, 'base64'): the decoded bytes of the payload.
BufferFrom(base64Data) == <<"bytes", base64Data>>

(***************************************************************************)
(* POST /api/update-product-image (part_003).                              *)
(***************************************************************************)
\* process.env.SERVER_BASE_URL
ServerBaseUrl == "http://server"

\* The prefix a valid imageDataUrl starts with.
DataImagePrefix == "data:image/"

\* formatMatch ? formatMatch[1].split(';')[0] : 'png', where formatMatch is
\* imageDataUrl.match(/data:image\/([^;]+)/) on a string that starts with
\* 'data:image/': the capture is the run of non-';' characters after the
\* prefix, and an empty run is no match.
extensionOf(imageDataUrl) ==
    LET rest == SubSeq(imageDataUrl, Len(DataImagePrefix) + 1, Len(imageDataUrl))
        cap  == splitFirst(rest, ";")
    IN  IF cap = "" THEN "png" ELSE splitFirst(cap, ";")

\* `${sku}_${imageType}.${extension}`
filenameOf(sku, imageType, extension) ==
    ToString(sku) \o "_" \o imageType \o "." \o extension

\* `${process.env.SERVER_BASE_URL}/images/${filename}`
publicImageUrlOf(filename) == ServerBaseUrl \o "/images/" \o filename

\* The field name built without the word Image: `${imageType} URL`.
imageFieldToUpdateShort(imageType) == imageType \o " URL"

\* `${imageType} Image URL`
imageFieldToUpdate(imageType) == imageType \o " Image URL"

\* A response: HTTP status, the error text (or Null on success) and the
\* product of the body (a one-element sequence, empty when there is none).
Reply(status, error, product) ==
    [status |-> status, error |-> error, product |-> product]

\* The outcome of a handler: the collection, the image directory and the
\* response it leaves behind.
Outcome(st, fs, r) == [store |-> st, files |-> fs, res |-> r]

\* The faults the environment can inject into one request: none, a rejected
\* findOne, a throwing writeFileSync, a rejected save.
Faults == {"none", "findOne", "writeFileSync", "save"}

\* The catch block: res.status(500).json({ error: 'Failed to save image: ' + message })
imageCatch(st, fs, message) ==
    Outcome(st, fs, Reply(500, "Failed to save image: " \o message, <<>>))

\* The handler from the slot assignment on (lines 147-159), given the found
\* document, the image directory after the write and the public URL.
imageAssignAndSave(st, fs, t, sku, imageType, product, publicImageUrl, fault) ==
    LET fieldToUpdate == imageFieldToUpdate(imageType)
        assigned      == [product EXCEPT ![fieldToUpdate] = publicImageUrl]
        updated       == recomputeStatus(assigned, t)
    IN  IF fault = "save"
        THEN imageCatch(st, fs, "save failed")
        ELSE Outcome(save(st, product, updated), fs, Reply(200, Null, <<updated>>))

\* The handler from the decoding on with a write whose failure is not
\* awaited (fs.writeFile with an ignored callback): it goes on to the slot.
imageStoreAndUpdateUnawaited(st, fs, t, sku, imageType, imageDataUrl, product, fault) ==
    LET base64Data     == splitSecond(imageDataUrl, ",")
        filename       == filenameOf(sku, imageType, extensionOf(imageDataUrl))
        written        == IF fault = "writeFileSync" THEN fs
                          ELSE writeFileSync(fs, filename, BufferFrom(base64Data))
    IN  IF base64Data = Undefined
        THEN imageCatch(st, fs, "The first argument must be of type string")
        ELSE IF ~schemaPath(imageFieldToUpdate(imageType))
        THEN Outcome(st, written,
                     Reply(400, "Invalid imageType: " \o imageType, <<>>))
        ELSE imageAssignAndSave(st, written, t, sku, imageType, product,
                                publicImageUrlOf(filename), fault)

\* The handler from the decoding on (lines 132-146), given the found document.
imageStoreAndUpdate(st, fs, t, sku, imageType, imageDataUrl, product, fault) ==
    LET base64Data     == splitSecond(imageDataUrl, ",")
        extension      == extensionOf(imageDataUrl)
        filename       == filenameOf(sku, imageType, extension)
        written        == writeFileSync(fs, filename, BufferFrom(base64Data))
        publicImageUrl == publicImageUrlOf(filename)
    IN  IF base64Data = Undefined
        THEN imageCatch(st, fs, "The first argument must be of type string")
        ELSE IF fault = "writeFileSync"
        THEN imageCatch(st, fs, "write failed")
        ELSE IF ~schemaPath(imageFieldToUpdate(imageType))
        THEN Outcome(st, written,
                     Reply(400, "Invalid imageType: " \o imageType, <<>>))
        ELSE imageAssignAndSave(st, written, t, sku, imageType, product,
                                publicImageUrl, fault)

\* The whole handler (lines 116-165): what it leaves in the collection and in
\* the image directory, and what it answers.
updateProductImage(st, fs, t, sku, imageType, imageDataUrl, fault) ==
    IF sku = 0 \/ ~Truthy(imageType) \/ ~Truthy(imageDataUrl)
    THEN Outcome(st, fs,
                 Reply(400, "SKU, imageType, and imageDataUrl are required", <<>>))
    ELSE IF fault = "findOne"
    THEN imageCatch(st, fs, "find failed")
    ELSE IF findOne(st, sku) = <<>>
    THEN Outcome(st, fs,
                 Reply(404, "Product with SKU " \o ToString(sku) \o " not found.", <<>>))
    ELSE IF ~startsWith(imageDataUrl, DataImagePrefix)
    THEN Outcome(st, fs, Reply(400, "Invalid imageDataUrl format", <<>>))
    ELSE imageStoreAndUpdate(st, fs, t, sku, imageType, imageDataUrl,
                             findOne(st, sku)[1], fault)

(***************************************************************************)
(* POST /api/update-product-description (part_003).                        *)
(***************************************************************************)
\* The description slot named with the image suffix.
descFieldToUpdateImage(descType) == descType \o " Image URL"

\* `${descType} Description`
descFieldToUpdate(descType) == descType \o " Description"

\* The catch block of the description handler.
descCatch(st, fs, message) ==
    Outcome(st, fs, Reply(500, "Failed to save description: " \o message, <<>>))

\* The whole handler (lines 184-222).
updateProductDescription(st, fs, t, sku, descType, description, fault) ==
    IF sku = 0 \/ ~Truthy(descType) \/ ~Truthy(description)
    THEN Outcome(st, fs,
                 Reply(400, "SKU, descType, and description are required", <<>>))
    ELSE IF fault = "findOne"
    THEN descCatch(st, fs, "find failed")
    ELSE IF findOne(st, sku) = <<>>
    THEN Outcome(st, fs,
                 Reply(404, "Product with SKU " \o ToString(sku) \o " not found.", <<>>))
    ELSE IF ~schemaPath(descFieldToUpdate(descType))
    THEN Outcome(st, fs, Reply(400, "Invalid descType: " \o descType, <<>>))
    ELSE LET product  == findOne(st, sku)[1]
             assigned == [product EXCEPT ![descFieldToUpdate(descType)] = description]
             updated  == recomputeStatus(assigned, t)
         IN  IF fault = "save"
             THEN descCatch(st, fs, "save failed")
             ELSE Outcome(save(st, product, updated), fs, Reply(200, Null, <<updated>>))

(***************************************************************************)
(* POST /api/generate-image and generateImageWithGoogleAI (part_003; the   *)
(* code of backend/server.js is the same).                                 *)
(***************************************************************************)
\* const imagenModels = [...]
imagenModels ==
    <<"imagen-4.0-generate-preview-06-06", "imagen-3.0-generate-002">>

\* String.prototype.includes
includes(s, sub) ==
    \E i \in 1..(Len(s) - Len(sub) + 1) : SubSeq(s, i, i + Len(sub) - 1) = sub

\* The answer of one predict call: axios rejects (a network error, a timeout
\* or a non-2xx status), or it resolves with data.predictions (an absent
\* predictions array and an empty one take the same branch).  A prediction
\* has bytesBase64Encoded and mimeType, either of which may be undefined.
ApiError == [rejected |-> TRUE, predictions |-> <<>>]
ApiData(predictions) == [rejected |-> FALSE, predictions |-> predictions]
Prediction(bytesBase64Encoded, mimeType) ==
    [bytesBase64Encoded |-> bytesBase64Encoded, mimeType |-> mimeType]

\* let imageFormat = 'png'; if (prediction.mimeType) { ... }
imageFormatOf(mimeType) ==
    IF ~Truthy(mimeType) THEN "png"
    ELSE IF includes(mimeType, "jpeg") \/ includes(mimeType, "jpg") THEN "jpeg"
    ELSE IF includes(mimeType, "gif") THEN "gif"
    ELSE IF includes(mimeType, "webp") THEN "webp"
    ELSE "png"

\* What one pass of the loop body gives after the call has been answered.
AttemptFailed(message) ==
    [ok |-> FALSE, message |-> message, imageBuffer |-> <<>>, imageFormat |-> Null]
AttemptImage(imageBuffer, imageFormat) ==
    [ok |-> TRUE, message |-> Null, imageBuffer |-> imageBuffer,
     imageFormat |-> imageFormat]

\* The loop body after axios.post (lines 249-263): a return or a throw that
\* the inner catch turns into `continue`.
modelAttempt(response) ==
    IF response.rejected
    THEN AttemptFailed("Request failed")
    ELSE IF response.predictions = <<>>
    THEN AttemptFailed("No predictions found in response")
    ELSE LET prediction == response.predictions[1]
         IN  IF ~Truthy(prediction.bytesBase64Encoded)
             THEN AttemptFailed("No bytesBase64Encoded in prediction")
             ELSE AttemptImage(BufferFrom(prediction.bytesBase64Encoded),
                               imageFormatOf(prediction.mimeType))

\* One outbound call: POST .../models/${model}:predict with the prompt and,
\* when there is one, the reference image.
PredictCall(model, prompt, referenceImagePath) ==
    [model |-> model, prompt |-> prompt, reference |-> referenceImagePath]

\* What generateImageWithGoogleAI gives its caller: the returned object or
\* the thrown Error, with the calls made on the way.
Generated(imageBuffer, modelUsed, imageFormat, made) ==
    [ok |-> TRUE, message |-> Null, imageBuffer |-> imageBuffer,
     modelUsed |-> modelUsed, imageFormat |-> imageFormat, calls |-> made]
Thrown(message, made) ==
    [ok |-> FALSE, message |-> message, imageBuffer |-> <<>>,
     modelUsed |-> Null, imageFormat |-> Null, calls |-> made]

\* The loop that starts at the first model and runs past the last one.
RECURSIVE tryImagenModelsAll(_, _, _, _, _)
tryImagenModelsAll(i, prompt, referenceImagePath, responses, made) ==
    IF i > Len(imagenModels)
    THEN Thrown("All configured Imagen models failed.", made)
    ELSE LET model   == imagenModels[i]
             called  == Append(made, PredictCall(model, prompt, referenceImagePath))
             attempt == modelAttempt(responses[i])
         IN  IF attempt.ok /\ i = Len(imagenModels)
             THEN Generated(attempt.imageBuffer, model, attempt.imageFormat, called)
             ELSE tryImagenModelsAll(i + 1, prompt, referenceImagePath,
                                     responses, called)

\* The loop that gives up after the first model.
tryImagenModelsFirstOnly(i, prompt, referenceImagePath, responses, made) ==
    LET model   == imagenModels[i]
        called  == Append(made, PredictCall(model, prompt, referenceImagePath))
        attempt == modelAttempt(responses[i])
    IN  IF attempt.ok
        THEN Generated(attempt.imageBuffer, model, attempt.imageFormat, called)
        ELSE Thrown("All configured Imagen models failed.", called)

\* for (const model of imagenModels) { try {...} catch { continue; } } and the
\* throw after it (lines 235-270), from the model at index i on; responses[i]
\* is the answer the i-th model gives, made the calls issued so far.
RECURSIVE tryImagenModels(_, _, _, _, _)
tryImagenModels(i, prompt, referenceImagePath, responses, made) ==
    IF i > Len(imagenModels)
    THEN Thrown("All configured Imagen models failed.", made)
    ELSE LET model   == imagenModels[i]
             called  == Append(made, PredictCall(model, prompt, referenceImagePath))
             attempt == modelAttempt(responses[i])
         IN  IF attempt.ok
             THEN Generated(attempt.imageBuffer, model, attempt.imageFormat, called)
             ELSE tryImagenModels(i + 1, prompt, referenceImagePath,
                                  responses, called)

\* generateImageWithGoogleAI(prompt, referenceImagePath) (lines 228-275);
\* apiKey is process.env.GOOGLE_AI_API_KEY.  The outer catch rethrows with
\* the prefix 'Image generation failed: '.
generateImageWithGoogleAI(prompt, referenceImagePath, apiKey, responses) ==
    IF ~Truthy(apiKey)
    THEN Thrown("Image generation failed: Google AI API key not configured", <<>>)
    ELSE \* one evaluation of the loop
         LET result == tryImagenModels(1, prompt, referenceImagePath,
                                       responses, <<>>)
         IN  IF result.ok THEN result
             ELSE [result EXCEPT
                      !.message = "Image generation failed: " \o result.message]

\* multer's diskStorage: uploads/ + Date.now() + '-' + file.originalname
uploadPath(t, originalname) == "uploads/" \o ToString(t) \o "-" \o originalname

\* The response of generate-image: the status, the error text of a JSON
\* body, the bytes of an image body and the headers of an image response.
GenReply(status, error, body, contentType, modelUsed) ==
    [status |-> status, error |-> error, body |-> body,
     contentType |-> contentType, modelUsed |-> modelUsed]

\* res.status(code).json({ error })
GenError(status, error) == GenReply(status, error, <<>>, "application/json", Null)

\* What a generate-image request leaves behind.
GenOutcome(ups, made, r) == [uploads |-> ups, calls |-> made, res |-> r]

\* The handler after the await (lines 96-112): the image response followed
\* by the unlink of the reference image, or the catch block.
generateImageRespond(ups, referenceImagePath, result) ==
    IF ~result.ok
    THEN GenOutcome(ups, result.calls,
                    GenError(500, "Failed to generate image: " \o result.message))
    ELSE GenOutcome(ups \ {referenceImagePath}, result.calls,
                    GenReply(200, Null, result.imageBuffer,
                             "image/" \o result.imageFormat, result.modelUsed))

\* The handler that calls the generation before it looks at the prompt.
generateImageUnchecked(ups, t, prompt, originalname, apiKey, responses) ==
    LET referenceImagePath == IF originalname = Null THEN Null
                              ELSE uploadPath(t, originalname)
        uploaded == IF originalname = Null THEN ups
                    ELSE ups \cup {referenceImagePath}
        result   == generateImageWithGoogleAI(prompt, referenceImagePath,
                                              apiKey, responses)
    IN  IF ~Truthy(prompt)
        THEN GenOutcome(uploaded, result.calls, GenError(400, "Prompt is required"))
        ELSE generateImageRespond(uploaded, referenceImagePath, result)

\* The whole request (lines 87-113): upload.single('referenceImage') stores
\* the file named originalname, if the form carries one, then the handler
\* runs.
generateImage(ups, t, prompt, originalname, apiKey, responses) ==
    LET referenceImagePath == IF originalname = Null THEN Null
                              ELSE uploadPath(t, originalname)
        uploaded == IF originalname = Null THEN ups
                    ELSE ups \cup {referenceImagePath}
    IN  IF ~Truthy(prompt)
        THEN GenOutcome(uploaded, <<>>, GenError(400, "Prompt is required"))
        ELSE generateImageRespond(uploaded, referenceImagePath,
                 generateImageWithGoogleAI(prompt, referenceImagePath,
                                           apiKey, responses))

\* The prompts, the reference images, the key configurations and the model
\* answers of the generate-image requests.
Prompts == {Undefined, "", "a ring"}
OriginalNames == {Null, "ref.png"}
ApiKeys == {Undefined, "key"}
ApiResponses ==
    {ApiError, ApiData(<<>>), ApiData(<<Prediction(Undefined, Undefined)>>)}
    \cup {ApiData(<<Prediction(b, m)>>) :
             b \in {"QQ==", "/9j/4A=="}, m \in {Undefined, "image/jpeg", "image/webp"}}

\* Every answer of the two models with a prompt and a key, and every prompt
\* and key with two pairs of answers.
GenerateRequests ==
    [prompt : {"a ring"}, originalname : OriginalNames, apiKey : {"key"},
     responses : [1..Len(imagenModels) -> ApiResponses]]
    \cup
    [prompt : Prompts, originalname : OriginalNames, apiKey : ApiKeys,
     responses : {<<ApiError, ApiError>>,
                  <<ApiError, ApiData(<<Prediction("QQ==", Undefined)>>)>>}]

\* No generate-image request yet.
NoGenRequest ==
    [prompt |-> Undefined, originalname |-> Null, apiKey |-> Undefined,
     responses |-> <<ApiError, ApiError>>]
NoGenReply == GenReply(0, Null, <<>>, Null, Null)

(***************************************************************************)
(* POST /api/generate-description and generateDescriptionWithGoogleAI      *)
(* (part_003 lines 167-311).                                               *)
(***************************************************************************)
\* const model = 'gemini-2.5-flash'
TextModel == "gemini-2.5-flash"

\* The answer of the generateContent call: axios rejects, or it resolves
\* with data.candidates.  A candidate has a content or none (a sequence of
\* length one or zero), a content has parts, a part may have a text.
TextApiError == [rejected |-> TRUE, candidates |-> <<>>]
TextApiData(candidates) == [rejected |-> FALSE, candidates |-> candidates]
Candidate(content) == [content |-> content]
Content(parts) == [parts |-> parts]
Part(text) == [text |-> text]

\* One outbound call: POST .../models/${model}:generateContent with the prompt.
GenerateContentCall(model, prompt) == [model |-> model, prompt |-> prompt]

\* What generateDescriptionWithGoogleAI gives its caller: the returned text
\* (which may be undefined) or the thrown Error, with the calls made.
TextReturned(text, made) ==
    [ok |-> TRUE, text |-> text, message |-> Null, calls |-> made]
TextThrown(message, made) ==
    [ok |-> FALSE, text |-> Undefined, message |-> message, calls |-> made]

\* response.data.candidates[0].content.parts[0].text (line 301): a TypeError
\* when candidates[0], its content or parts[0] is undefined, else the text
\* property of the first part, whatever it is.
candidateText(response) ==
    IF response.candidates = <<>> THEN TextThrown("TypeError", <<>>)
    ELSE IF response.candidates[1].content = <<>> THEN TextThrown("TypeError", <<>>)
    ELSE IF response.candidates[1].content[1].parts = <<>>
    THEN TextThrown("TypeError", <<>>)
    ELSE TextReturned(response.candidates[1].content[1].parts[1].text, <<>>)

\* The function with the key looked at only after the call has been made.
generateDescriptionWithGoogleAILateKey(prompt, apiKey, response) ==
    LET made == <<GenerateContentCall(TextModel, prompt)>>
    IN  IF response.rejected \/ ~Truthy(apiKey)
        THEN TextThrown("Text generation failed", made)
        ELSE IF candidateText(response).ok
        THEN TextReturned(candidateText(response).text, made)
        ELSE TextThrown("Text generation failed", made)

\* generateDescriptionWithGoogleAI(prompt) (lines 278-311); apiKey is
\* process.env.GOOGLE_AI_TEXT_API_KEY.  Every error, the missing key
\* included, is caught and rethrown as 'Text generation failed'.
generateDescriptionWithGoogleAI(prompt, apiKey, response) ==
    IF ~Truthy(apiKey)
    THEN TextThrown("Text generation failed", <<>>)
    ELSE LET made == <<GenerateContentCall(TextModel, prompt)>>
         IN  IF response.rejected
             THEN TextThrown("Text generation failed", made)
             ELSE IF candidateText(response).ok
             THEN TextReturned(candidateText(response).text, made)
             ELSE TextThrown("Text generation failed", made)

\* The response of generate-description: the status and the error or the
\* description of the JSON body (JSON.stringify drops a property that is
\* undefined, so an undefined description gives the body {}).
TextReply(status, error, description) ==
    [status |-> status, error |-> error, description |-> description]

\* What a generate-description request leaves behind.
TextOutcome(made, r) == [calls |-> made, res |-> r]

\* The whole request (lines 168-181).
generateDescription(prompt, apiKey, response) ==
    IF ~Truthy(prompt)
    THEN TextOutcome(<<>>, TextReply(400, "Prompt is required", Undefined))
    ELSE \* the helper's result decides the response
         LET result == generateDescriptionWithGoogleAI(prompt, apiKey, response)
         IN  IF result.ok
             THEN TextOutcome(result.calls, TextReply(200, Null, result.text))
             ELSE TextOutcome(result.calls,
                      TextReply(500, "Failed to generate description: "
                                        \o result.message, Undefined))

\* The answers of the text model: a rejection, no candidate, a candidate
\* without content, a content without parts, a part without text, an empty
\* text and a text.
TextApiResponses ==
    {TextApiError, TextApiData(<<>>), TextApiData(<<Candidate(<<>>)>>),
     TextApiData(<<Candidate(<<Content(<<>>)>>)>>)}
    \cup {TextApiData(<<Candidate(<<Content(<<Part(t)>>)>>)>>) :
             t \in {Undefined, "", "A gold ring."}}

DescribeRequests ==
    [prompt : Prompts, apiKey : ApiKeys, response : TextApiResponses]

\* No generate-description request yet.
NoTextRequest ==
    [prompt |-> Undefined, apiKey |-> Undefined, response |-> TextApiError]
NoTextReply == TextReply(0, Null, Undefined)

(***************************************************************************)
(* The React client: the state of App and handleConfirmSave (part_001      *)
(* lines 100-136, and the earlier App of part_000 lines 95-181).           *)
(***************************************************************************)
\* String.prototype.trim on the strings typed into the SKU input.
RECURSIVE trim(_)
trim(s) ==
    IF s = "" THEN ""
    ELSE IF SubSeq(s, 1, 1) = " " THEN trim(SubSeq(s, 2, Len(s)))
    ELSE IF SubSeq(s, Len(s), Len(s)) = " " THEN trim(SubSeq(s, 1, Len(s) - 1))
    ELSE s

\* The handleConfirmSave call in progress: where it waits (idle when there is
\* none), the number of the click that started it, which of the two try
\* blocks of the earlier App it is in, and the skuInput and generatedImage
\* its closure captured at the click.
ClickAt(pc, n, block, sku, image) ==
    [pc |-> pc, n |-> n, block |-> block, sku |-> sku, image |-> image]

\* One fetch of update-product-image, with the click that caused it.
SaveFetch(n, sku, imageType, imageDataUrl) ==
    [click |-> n, sku |-> sku, imageType |-> imageType,
     imageDataUrl |-> imageDataUrl]

\* What reader.result is for a blob URL; fetch(null) asks for the page at
\* the relative URL 'null'.
blobDataUrl(image) ==
    IF image = Null THEN "data:text/html;base64,PCE=" ELSE "data:image/png;base64,QQ=="

InitClient ==
    /\ isSaving = FALSE
    /\ skuInput = ""
    /\ generatedImage = Null
    /\ showSaveModal = FALSE
    /\ sent = <<>>
    /\ click = ClickAt("idle", 0, 0, "", Null)

InitGeneration ==
    /\ uploads = {}
    /\ calls = <<>>
    /\ genReq = NoGenRequest
    /\ genRes = NoGenReply
    /\ textCalls = <<>>
    /\ textReq = NoTextRequest
    /\ textRes = NoTextReply

\* No save request in flight.
NoProcs == <<>>

(***************************************************************************)
(* The requests the clients send and the documents the ingestion created.  *)
(***************************************************************************)
\* The SKUs in the collection.
StoredSkus == {1001}

\* sku of a request: missing (0 is as falsy as undefined), stored, unknown.
RequestSkus == {0, 1001, 2002}

\* imageType of a request: missing, the three slots, and the Pre-Image choice
\* of the client form.
ImageTypes == {"", "Wax", "Cast", "Final", "Pre-Image"}

\* imageDataUrl of a request: missing, not an image, an image data URL without
\* a payload part, an image data URL.
ImageDataUrls ==
    {"", "data:text/plain;base64,QQ==", "data:image/png",
     "data:image/png;base64,QQ=="}

\* descType of a request.
DescTypes == {"", "Wax", "Cast", "Final", "Pre-Image"}

\* description of a request: missing or a text.
Descriptions == {"", "a ring"}

\* 'Pre-Image URL' of an ingested document: absent or present.
PreImageUrls == {Null, "http://sheet/pre.png"}

\* The image-save requests: every combination of the fields, fault free, and
\* every fault for the requests to a stored SKU that carry an image data URL.
ImageRequests ==
    [sku : RequestSkus, imageType : ImageTypes,
     imageDataUrl : ImageDataUrls, fault : {"none"}]
    \cup
    [sku : StoredSkus, imageType : ImageTypes \ {""},
     imageDataUrl : {"data:image/png;base64,QQ=="}, fault : Faults]

\* The description-save requests, likewise.
DescriptionRequests ==
    [sku : RequestSkus, descType : DescTypes,
     description : Descriptions, fault : {"none"}]
    \cup
    [sku : StoredSkus, descType : DescTypes \ {""},
     description : Descriptions \ {""}, fault : Faults]

\* No response yet.
NoReply == Reply(0, Null, <<>>)

(***************************************************************************)
(* The state machine of part_003: requests are handled one after another.  *)
(***************************************************************************)
Init ==
    /\ \E pre \in PreImageUrls :
          store = [s \in StoredSkus |-> NewProduct(s, pre, "Rings")]
    /\ files = <<>>
    /\ now = 1
    /\ res = NoReply
    /\ hist = <<>>
    /\ InitGeneration
    /\ InitClient
    /\ procs = NoProcs

\* One POST /api/update-product-image, start to response.
UpdateProductImage(sku, imageType, imageDataUrl, fault) ==
    \E o \in {updateProductImage(store, files, now, sku, imageType,
                                imageDataUrl, fault)} :
        /\ store' = o.store
        /\ files' = o.files
        /\ res' = o.res
        /\ UNCHANGED <<clientVars, now, hist, genVars, procs>>

\* One POST /api/update-product-description, start to response.
UpdateProductDescription(sku, descType, description, fault) ==
    \E o \in {updateProductDescription(store, files, now, sku, descType,
                                      description, fault)} :
        /\ store' = o.store
        /\ files' = o.files
        /\ res' = o.res
        /\ UNCHANGED <<clientVars, now, hist, genVars, procs>>

\* Time passes between requests.
Tick ==
    /\ now < MaxClock
    /\ now' = now + 1
    /\ UNCHANGED <<clientVars, store, files, res, hist, genVars, procs>>

ImageRequest ==
    \E r \in ImageRequests :
        UpdateProductImage(r.sku, r.imageType, r.imageDataUrl, r.fault)

DescriptionRequest ==
    \E r \in DescriptionRequests :
        UpdateProductDescription(r.sku, r.descType, r.description, r.fault)

Next == ImageRequest \/ DescriptionRequest \/ Tick

Spec == Init /\ [][Next]_vars

(***************************************************************************)
(* The revision in src/backend/server.js: the schema names the timestamp   *)
(* 'Created at', checkFulfillment also reads 'Pre-Image URL', the public   *)
(* URL is built from the port, and there is no description endpoint.       *)
(***************************************************************************)
\* The paths of productSchema in backend/server.js.
SchemaPathsBackend ==
    {"SKU", "Status", "Pre-Image URL", "Category",
     "Wax Image URL", "Cast Image URL", "Final Image URL",
     "Wax Description", "Cast Description", "Final Description",
     "Created at"}

\* productSchema.path(name) in backend/server.js.
schemaPathBackend(name) == name \in SchemaPathsBackend

\* An ingested document of backend/server.js; desc is the text the sheet
\* carried for the three descriptions (Null when it carried none).
NewProductBackend(sku, pre, cat, desc) ==
    [f \in SchemaPathsBackend |->
        CASE f = "SKU"           -> sku
          [] f = "Status"        -> "Pending"
          [] f = "Pre-Image URL" -> pre
          [] f = "Category"      -> cat
          [] f = "Created at"    -> 0
          [] f \in DescSlots     -> desc
          [] OTHER               -> Null]

\* checkFulfillment(product) of backend/server.js.
checkFulfillmentBackend(product) ==
    LET urlsFilled  == /\ Truthy(product["Pre-Image URL"])
                       /\ Truthy(product["Wax Image URL"])
                       /\ Truthy(product["Cast Image URL"])
                       /\ Truthy(product["Final Image URL"])
        descsFilled == /\ Truthy(product["Wax Description"])
                       /\ Truthy(product["Cast Description"])
                       /\ Truthy(product["Final Description"])
    IN  urlsFilled /\ descsFilled

\* Step 5 of the handler in backend/server.js.
recomputeStatusBackend(product, t) ==
    IF checkFulfillmentBackend(product) /\ product["Status"] = "Pending"
    THEN [product EXCEPT !["Status"] = "Fulfilled", !["Created at"] = t]
    ELSE product

\* const PORT = process.env.PORT || 5000
Port == 5000

\* `http://localhost:${PORT}/images/${filename}`
publicImageUrlBackend(filename) ==
    "http://localhost:" \o ToString(Port) \o "/images/" \o filename

\* POST /api/update-product-image of backend/server.js, from the decoding on.
imageStoreAndUpdateBackend(st, fs, t, sku, imageType, imageDataUrl, product, fault) ==
    LET base64Data     == splitSecond(imageDataUrl, ",")
        extension      == extensionOf(imageDataUrl)
        filename       == filenameOf(sku, imageType, extension)
        written        == writeFileSync(fs, filename, BufferFrom(base64Data))
        publicImageUrl == publicImageUrlBackend(filename)
        fieldToUpdate  == imageFieldToUpdate(imageType)
        assigned       == [product EXCEPT ![fieldToUpdate] = publicImageUrl]
        updated        == recomputeStatusBackend(assigned, t)
    IN  IF base64Data = Undefined
        THEN imageCatch(st, fs, "The first argument must be of type string")
        ELSE IF fault = "writeFileSync"
        THEN imageCatch(st, fs, "write failed")
        ELSE IF ~schemaPathBackend(fieldToUpdate)
        THEN Outcome(st, written,
                     Reply(400, "Invalid imageType: " \o imageType, <<>>))
        ELSE IF fault = "save"
        THEN imageCatch(st, written, "save failed")
        ELSE Outcome(save(st, product, updated), written, Reply(200, Null, <<updated>>))

\* POST /api/update-product-image of backend/server.js, the whole handler.
updateProductImageBackend(st, fs, t, sku, imageType, imageDataUrl, fault) ==
    IF sku = 0 \/ ~Truthy(imageType) \/ ~Truthy(imageDataUrl)
    THEN Outcome(st, fs,
                 Reply(400, "SKU, imageType, and imageDataUrl are required", <<>>))
    ELSE IF fault = "findOne"
    THEN imageCatch(st, fs, "find failed")
    ELSE IF findOne(st, sku) = <<>>
    THEN Outcome(st, fs,
                 Reply(404, "Product with SKU " \o ToString(sku) \o " not found.", <<>>))
    ELSE IF ~startsWith(imageDataUrl, DataImagePrefix)
    THEN Outcome(st, fs, Reply(400, "Invalid imageDataUrl format", <<>>))
    ELSE imageStoreAndUpdateBackend(st, fs, t, sku, imageType, imageDataUrl,
                                    findOne(st, sku)[1], fault)

\* The descriptions of an ingested document: none, or a text for each.
IngestedDescriptions == {Null, "a ring"}

InitBackend ==
    /\ \E pre \in PreImageUrls, desc \in IngestedDescriptions :
          store = [s \in StoredSkus |-> NewProductBackend(s, pre, "Rings", desc)]
    /\ files = <<>>
    /\ now = 1
    /\ res = NoReply
    /\ hist = <<>>
    /\ InitGeneration
    /\ InitClient
    /\ procs = NoProcs

\* One POST /api/update-product-image of backend/server.js.
UpdateProductImageBackend(sku, imageType, imageDataUrl, fault) ==
    \E o \in {updateProductImageBackend(store, files, now, sku, imageType,
                                       imageDataUrl, fault)} :
        /\ store' = o.store
        /\ files' = o.files
        /\ res' = o.res
        /\ UNCHANGED <<clientVars, now, hist, genVars, procs>>

ImageRequestBackend ==
    \E r \in ImageRequests :
        UpdateProductImageBackend(r.sku, r.imageType, r.imageDataUrl, r.fault)

NextBackend == ImageRequestBackend \/ Tick

SpecBackend == InitBackend /\ [][NextBackend]_vars

(***************************************************************************)
(* The generate-image endpoint as a state machine.                         *)
(***************************************************************************)
\* One POST /api/generate-image, from the upload to the response.
GenerateImage(r) ==
    \E o \in {generateImage(uploads, now, r.prompt, r.originalname, r.apiKey,
                            r.responses)} :
        /\ uploads' = o.uploads
        /\ calls' = o.calls
        /\ genRes' = o.res
        /\ genReq' = r
        /\ UNCHANGED <<clientVars, store, files, now, res, hist, procs, textVars>>

GenerateRequest == \E r \in GenerateRequests : GenerateImage(r)

NextGen == GenerateRequest \/ Tick

SpecGen == Init /\ [][NextGen]_vars

(***************************************************************************)
(* The earlier server kept in part_003 (lines 326-665): the same endpoint  *)
(* with a format inference that also looks at the first bytes.             *)
(***************************************************************************)
Base64Alphabet ==
    "ABCDEFGHIJKLMNOPQRSTUVWXYZabcdefghijklmnopqrstuvwxyz0123456789+/"

\* The six bits of the k-th character of a base64 text; -1 for padding or
\* past the end.
sextet(base64, k) ==
    IF k > Len(base64) THEN -1
    ELSE indexOf(Base64Alphabet, SubSeq(base64, k, k)) - 1

\* imageBuffer[0] and imageBuffer[1] of Buffer.from(base64, 'base64'); -1
\* stands for undefined (the buffer is shorter).
bufferByte0(base64) ==
    IF sextet(base64, 1) < 0 \/ sextet(base64, 2) < 0 THEN -1
    ELSE sextet(base64, 1) * 4 + (sextet(base64, 2) \div 16)
bufferByte1(base64) ==
    IF sextet(base64, 2) < 0 \/ sextet(base64, 3) < 0 THEN -1
    ELSE (sextet(base64, 2) % 16) * 16 + (sextet(base64, 3) \div 4)

\* Lines 602-625: the mime type if there is one, else the first two bytes.
imageFormatLegacy(mimeType, base64) ==
    IF Truthy(mimeType)
    THEN IF includes(mimeType, "jpeg") \/ includes(mimeType, "jpg") THEN "jpeg"
         ELSE IF includes(mimeType, "png") THEN "png"
         ELSE IF includes(mimeType, "gif") THEN "gif"
         ELSE IF includes(mimeType, "webp") THEN "webp"
         ELSE "png"
    ELSE IF bufferByte0(base64) = 255 /\ bufferByte1(base64) = 216 THEN "jpeg"
         ELSE IF bufferByte0(base64) = 137 /\ bufferByte1(base64) = 80 THEN "png"
         ELSE IF bufferByte0(base64) = 71 /\ bufferByte1(base64) = 73 THEN "gif"
         ELSE "png"

\* The loop body after axios.post (lines 577-631), a return or a throw.
modelAttemptLegacy(response) ==
    IF response.rejected
    THEN AttemptFailed("Request failed")
    ELSE IF response.predictions = <<>>
    THEN AttemptFailed("No predictions found in response")
    ELSE LET prediction == response.predictions[1]
         IN  IF ~Truthy(prediction.bytesBase64Encoded)
             THEN AttemptFailed("No bytesBase64Encoded found in prediction")
             ELSE AttemptImage(BufferFrom(prediction.bytesBase64Encoded),
                               imageFormatLegacy(prediction.mimeType,
                                                 prediction.bytesBase64Encoded))

\* The loop of lines 547-641 and the throw of line 644, from the model at
\* index i on.
RECURSIVE tryImagenModelsLegacy(_, _, _, _, _)
tryImagenModelsLegacy(i, prompt, referenceImagePath, responses, made) ==
    IF i > Len(imagenModels)
    THEN Thrown("All configured Imagen models failed to generate an image.", made)
    ELSE LET model   == imagenModels[i]
             called  == Append(made, PredictCall(model, prompt, referenceImagePath))
             attempt == modelAttemptLegacy(responses[i])
         IN  IF attempt.ok
             THEN Generated(attempt.imageBuffer, model, attempt.imageFormat, called)
             ELSE tryImagenModelsLegacy(i + 1, prompt, referenceImagePath,
                                        responses, called)

\* generateImageWithGoogleAI of lines 528-651.
generateImageWithGoogleAILegacy(prompt, referenceImagePath, apiKey, responses) ==
    IF ~Truthy(apiKey)
    THEN Thrown("Image generation failed: Google AI API key not configured", <<>>)
    ELSE LET result == tryImagenModelsLegacy(1, prompt, referenceImagePath,
                                             responses, <<>>)
         IN  IF result.ok THEN result
             ELSE [result EXCEPT
                      !.message = "Image generation failed: " \o result.message]

\* The whole request of lines 423-463.
generateImageLegacy(ups, t, prompt, originalname, apiKey, responses) ==
    LET referenceImagePath == IF originalname = Null THEN Null
                              ELSE uploadPath(t, originalname)
        uploaded == IF originalname = Null THEN ups
                    ELSE ups \cup {referenceImagePath}
    IN  IF ~Truthy(prompt)
        THEN GenOutcome(uploaded, <<>>, GenError(400, "Prompt is required"))
        ELSE generateImageRespond(uploaded, referenceImagePath,
                 generateImageWithGoogleAILegacy(prompt, referenceImagePath,
                                                 apiKey, responses))

GenerateImageLegacy(r) ==
    \E o \in {generateImageLegacy(uploads, now, r.prompt, r.originalname,
                                  r.apiKey, r.responses)} :
        /\ uploads' = o.uploads
        /\ calls' = o.calls
        /\ genRes' = o.res
        /\ genReq' = r
        /\ UNCHANGED <<clientVars, store, files, now, res, hist, procs, textVars>>

GenerateRequestLegacy == \E r \in GenerateRequests : GenerateImageLegacy(r)

NextLegacy == GenerateRequestLegacy \/ Tick

SpecLegacy == Init /\ [][NextLegacy]_vars

(***************************************************************************)
(* Repeated image saves to one slot, with the accepted saves recorded.     *)
(***************************************************************************)
\* `data:image/${format};base64,${bytes}`, what the client's FileReader or
\* canvas gives for an image of that format.
dataUrlOf(format, base64) == "data:image/" \o format \o ";base64," \o base64

\* Two formats and two contents, for the Wax and the Cast slot of the stored
\* Product; the save of the document may fail.
NamingRequests ==
    [sku : StoredSkus, imageType : {"Wax", "Cast"},
     format : {"png", "jpeg"}, base64 : {"QQ==", "Qg=="},
     fault : {"none", "save"}]

\* One POST /api/update-product-image; a request answered 200 is appended to
\* the record with the URL the response carries for its slot.
UpdateProductImageRecorded(r) ==
    /\ Len(hist) < MaxHist
    /\ \E o \in {updateProductImage(store, files, now, r.sku, r.imageType,
                                   dataUrlOf(r.format, r.base64), r.fault)} :
          /\ store' = o.store
          /\ files' = o.files
          /\ res' = o.res
          /\ hist' = IF o.res.status = 200
                     THEN Append(hist,
                              [sku |-> r.sku, imageType |-> r.imageType,
                               format |-> r.format, base64 |-> r.base64,
                               url |-> o.res.product[1][r.imageType \o " Image URL"]])
                     ELSE hist
          /\ UNCHANGED <<clientVars, now, genVars, procs>>

NextNaming == \E r \in NamingRequests : UpdateProductImageRecorded(r)

SpecNaming == Init /\ [][NextNaming]_vars

(***************************************************************************)
(* All three endpoints side by side: generate and save requests in any     *)
(* order, for stored and unknown SKUs.                                     *)
(***************************************************************************)
CoreGenerateRequests ==
    [prompt : {"", "a ring"}, originalname : {Null}, apiKey : {"key"},
     responses : {<<ApiError, ApiError>>,
                  <<ApiError, ApiData(<<Prediction("QQ==", Undefined)>>)>>}]

CoreImageRequests ==
    [sku : RequestSkus, imageType : {"Wax", "Pre-Image"},
     imageDataUrl : {"data:text/plain;base64,QQ==", "data:image/png;base64,QQ=="},
     fault : {"none", "save"}]

CoreDescriptionRequests ==
    [sku : RequestSkus, descType : {"Wax", "Pre-Image"},
     description : {"a ring"}, fault : {"none", "save"}]

GenerateRequestCore == \E r \in CoreGenerateRequests : GenerateImage(r)

ImageRequestCore ==
    \E r \in CoreImageRequests :
        UpdateProductImage(r.sku, r.imageType, r.imageDataUrl, r.fault)

DescriptionRequestCore ==
    \E r \in CoreDescriptionRequests :
        UpdateProductDescription(r.sku, r.descType, r.description, r.fault)

NextCore == GenerateRequestCore \/ ImageRequestCore \/ DescriptionRequestCore

SpecCore == Init /\ [][NextCore]_vars

(***************************************************************************)
(* Overlapping save requests.  A handler runs to its first await           *)
(* (Product.findOne), then from the resolved findOne to its second await   *)
(* (product.save()), then from the resolved save to the response; between  *)
(* two awaits of one request Node runs the steps of other requests.        *)
(***************************************************************************)
ProcIds == 1..MaxProcs

\* A Product whose Cast and Final slots the sequential saves have filled.
HalfFilled(product) ==
    [product EXCEPT
        !["Cast Image URL"]    = publicImageUrlOf(filenameOf(product["SKU"], "Cast", "png")),
        !["Final Image URL"]   = publicImageUrlOf(filenameOf(product["SKU"], "Final", "png")),
        !["Cast Description"]  = "a ring",
        !["Final Description"] = "a ring"]

\* The files those saves wrote.
HalfFilledFiles(sku) ==
    [n \in {filenameOf(sku, "Cast", "png"), filenameOf(sku, "Final", "png")} |->
        BufferFrom("QQ==")]

\* The save requests that overlap: images and descriptions for the stored
\* Product and for an unknown one.
ConcRequests ==
    [endpoint : {"image"}, sku : {1001, 2002}, type : {"Wax", "Cast"},
     payload : {"data:image/png;base64,Qg=="}]
    \cup
    [endpoint : {"description"}, sku : {1001, 2002}, type : {"Wax", "Cast"},
     payload : {"a band"}]

\* The handler of a request, run on the collection and the image directory
\* as they are at the time.
handle(st, fs, t, req) ==
    IF req.endpoint = "image"
    THEN updateProductImage(st, fs, t, req.sku, req.type, req.payload, "none")
    ELSE updateProductDescription(st, fs, t, req.sku, req.type, req.payload, "none")

\* A request in flight: where it stands, the document findOne gave it, the
\* document it holds in memory, and its response.
IdleProc ==
    [pc |-> "idle",
     req |-> [endpoint |-> "image", sku |-> 0, type |-> "", payload |-> ""],
     loaded |-> <<>>, product |-> <<>>, res |-> NoReply]

InitConc ==
    /\ \E pre \in PreImageUrls, filled \in BOOLEAN :
          /\ store = [s \in StoredSkus |->
                        IF filled THEN HalfFilled(NewProduct(s, pre, "Rings"))
                        ELSE NewProduct(s, pre, "Rings")]
          /\ files = IF filled THEN HalfFilledFiles(1001) ELSE <<>>
    /\ now = 1
    /\ res = NoReply
    /\ hist = <<>>
    /\ InitGeneration
    /\ InitClient
    /\ procs = [p \in ProcIds |-> IdleProc]

\* The request arrives; the handler checks the required fields and calls
\* Product.findOne (lines 118-123, 186-192).
Receive(p, req) ==
    /\ procs[p].pc = "idle"
    /\ procs' = [procs EXCEPT ![p] = [@ EXCEPT !.pc = "finding", !.req = req]]
    /\ UNCHANGED <<clientVars, store, files, now, res, hist, genVars>>

\* findOne resolves and the handler runs on to product.save() (lines
\* 124-155, 193-210): it answers 404 or 400 and ends, or it writes the image
\* file, assigns the slot of the document in memory, runs the fulfillment
\* block on that document and calls save.
Find(p) ==
    /\ procs[p].pc = "finding"
    /\ \E o \in {handle(store, files, now, procs[p].req)} :
          /\ files' = o.files
          /\ IF o.res.status = 200
             THEN /\ procs' = [procs EXCEPT ![p] =
                                  [@ EXCEPT !.pc = "saving",
                                            !.loaded = findOne(store, procs[p].req.sku),
                                            !.product = o.res.product]]
                  /\ UNCHANGED res
             ELSE /\ procs' = [procs EXCEPT ![p] =
                                  [@ EXCEPT !.pc = "done", !.res = o.res]]
                  /\ res' = o.res
    /\ UNCHANGED <<clientVars, store, now, hist, genVars>>

\* save resolves and the handler answers with the document it holds in
\* memory (lines 155-159, 210-214).
Commit(p) ==
    /\ procs[p].pc = "saving"
    /\ store' = save(store, procs[p].loaded[1], procs[p].product[1])
    /\ procs' = [procs EXCEPT ![p] =
                    [@ EXCEPT !.pc = "done",
                              !.res = Reply(200, Null, procs[p].product)]]
    /\ res' = Reply(200, Null, procs[p].product)
    /\ UNCHANGED <<clientVars, files, now, hist, genVars>>

NextConc ==
    \/ \E p \in ProcIds, req \in ConcRequests : Receive(p, req)
    \/ \E p \in ProcIds : Find(p)
    \/ \E p \in ProcIds : Commit(p)

SpecConc == InitConc /\ [][NextConc]_vars

(***************************************************************************)
(* Image and description saves one after another, with the accepted saves  *)
(* recorded by slot.                                                       *)
(***************************************************************************)
\* `${type} Image URL` or `${type} Description`, by endpoint.
fieldToUpdateOf(req) ==
    IF req.endpoint = "image" THEN imageFieldToUpdate(req.type)
    ELSE descFieldToUpdate(req.type)

SlotRequests ==
    [endpoint : {"image"}, sku : StoredSkus, type : {"Wax", "Cast", "Pre-Image"},
     payload : {dataUrlOf("png", "Qg=="), dataUrlOf("jpeg", "QQ==")}]
    \cup
    [endpoint : {"description"}, sku : StoredSkus, type : {"Wax", "Cast", "Pre-Image"},
     payload : {"a ring", "a band"}]

\* One save request, start to response; a request answered 200 is appended
\* to the record with its slot and the value the response shows in it.
SaveRecorded(req) ==
    /\ Len(hist) < MaxHist
    /\ \E o \in {handle(store, files, now, req)} :
          /\ store' = o.store
          /\ files' = o.files
          /\ res' = o.res
          /\ hist' = IF o.res.status = 200
                     THEN Append(hist,
                              [sku |-> req.sku, slot |-> fieldToUpdateOf(req),
                               value |-> o.res.product[1][fieldToUpdateOf(req)]])
                     ELSE hist
          /\ UNCHANGED <<clientVars, now, genVars, procs>>

NextSlots == \E req \in SlotRequests : SaveRecorded(req)

SpecSlots == Init /\ [][NextSlots]_vars

(***************************************************************************)
(* Saves to a collection of two Products.                                  *)
(***************************************************************************)
FrameSkus == {1001, 3003}

\* Every slot of the first Product, the Wax slots of the second, and an
\* unknown SKU.
FrameRequests ==
    [endpoint : {"image"}, sku : {1001}, type : {"Wax", "Cast", "Final"},
     payload : {dataUrlOf("png", "Qg==")}]
    \cup
    [endpoint : {"description"}, sku : {1001}, type : {"Wax", "Cast", "Final"},
     payload : {"a band"}]
    \cup
    [endpoint : {"image"}, sku : {3003, 2002}, type : {"Wax"},
     payload : {dataUrlOf("jpeg", "QQ==")}]
    \cup
    [endpoint : {"description"}, sku : {3003, 2002}, type : {"Wax"},
     payload : {"a ring"}]

InitFrame ==
    /\ \E pre \in PreImageUrls :
          store = [s \in FrameSkus |-> NewProduct(s, pre, "Rings")]
    /\ files = <<>>
    /\ now = 1
    /\ res = NoReply
    /\ hist = <<>>
    /\ InitGeneration
    /\ InitClient
    /\ procs = NoProcs

\* One save request, start to response.
Save(req) ==
    \E o \in {handle(store, files, now, req)} :
        /\ store' = o.store
        /\ files' = o.files
        /\ res' = o.res
        /\ UNCHANGED <<clientVars, now, hist, genVars, procs>>

SaveRequest == \E req \in FrameRequests : Save(req)

NextFrame == SaveRequest \/ Tick

SpecFrame == InitFrame /\ [][NextFrame]_vars

(***************************************************************************)
(* The two generation endpoints side by side, with and without their keys. *)
(***************************************************************************)
\* One POST /api/generate-description, start to response.
GenerateDescription(r) ==
    \E o \in {generateDescription(r.prompt, r.apiKey, r.response)} :
        /\ textCalls' = o.calls
        /\ textRes' = o.res
        /\ textReq' = r
        /\ UNCHANGED <<clientVars, store, files, now, res, hist, procs,
                       uploads, calls, genReq, genRes>>

DescribeRequest == \E r \in DescribeRequests : GenerateDescription(r)

\* Image requests with a prompt, with and without a key.
KeyGenerateRequests ==
    [prompt : {"a ring"}, originalname : OriginalNames, apiKey : ApiKeys,
     responses : {<<ApiError, ApiError>>,
                  <<ApiError, ApiData(<<Prediction("QQ==", Undefined)>>)>>}]

GenerateRequestKey == \E r \in KeyGenerateRequests : GenerateImage(r)

NextText == DescribeRequest \/ GenerateRequestKey

SpecText == Init /\ [][NextText]_vars

(***************************************************************************)
(* One generate-image request step by step: the handler runs to its first  *)
(* await, each axios.post settles by an answer or by its timeout, and the  *)
(* continuation runs to the next await or to the response (part_003 lines  *)
(* 87-113 and 228-275).                                                    *)
(***************************************************************************)
\* timeout: 30000 of the axios.post options (line 248), in milliseconds.
axiosTimeout == 30000

\* A call without a timeout never gives up.
timesOutNever(timeout, hung) == FALSE

\* axios rejects a call that has had no answer after `timeout` milliseconds;
\* a timeout of 0 means no timeout.
timesOut(timeout, hung) == hung /\ timeout > 0

\* The attempt that ends in the rejection of a timed-out call.
timeoutAttempt == AttemptFailed("timeout of 30000ms exceeded")

\* The position of the handler: idle, awaiting the answer of the i-th model,
\* or done (the response has been sent).
StepAt(pc, i) == [pc |-> pc, i |-> i]

\* The requests: as before, and the set of the models whose call gets no
\* answer at all.
StepRequests ==
    [prompt : Prompts, originalname : OriginalNames, apiKey : ApiKeys,
     responses : {<<ApiError, ApiError>>,
                  <<ApiError, ApiData(<<Prediction("QQ==", "image/jpeg")>>)>>,
                  <<ApiData(<<>>), ApiData(<<Prediction("QQ==", Undefined)>>)>>,
                  <<ApiData(<<Prediction("QQ==", Undefined)>>), ApiError>>},
     hangs : SUBSET (1..Len(imagenModels))]

InitSteps ==
    /\ \E pre \in PreImageUrls :
          store = [s \in StoredSkus |-> NewProduct(s, pre, "Rings")]
    /\ files = <<>>
    /\ now = 1
    /\ res = NoReply
    /\ hist = <<>>
    /\ InitGeneration
    /\ InitClient
    /\ procs = StepAt("idle", 0)

\* The reference image of the request being served.
stepReferencePath ==
    IF genReq.originalname = Null THEN Null
    ELSE uploadPath(now, genReq.originalname)

\* The request arrives: multer stores the reference image, the prompt and
\* the key are tested, and the handler stops at the first axios.post.
StepReceive(r) ==
    /\ procs.pc \in {"idle", "done"}
    /\ genReq' = r
    /\ LET path == IF r.originalname = Null THEN Null
                   ELSE uploadPath(now, r.originalname)
           uploaded == IF r.originalname = Null THEN uploads
                       ELSE uploads \cup {path}
       IN  /\ uploads' = uploaded
           /\ IF ~Truthy(r.prompt)
              THEN /\ genRes' = GenError(400, "Prompt is required")
                   /\ calls' = <<>>
                   /\ procs' = StepAt("done", 0)
              ELSE IF ~Truthy(r.apiKey)
              THEN /\ genRes' = GenError(500,
                          "Failed to generate image: Image generation failed: "
                          \o "Google AI API key not configured")
                   /\ calls' = <<>>
                   /\ procs' = StepAt("done", 0)
              ELSE /\ genRes' = NoGenReply
                   /\ calls' = <<PredictCall(imagenModels[1], r.prompt, path)>>
                   /\ procs' = StepAt("await", 1)
    /\ UNCHANGED <<clientVars, store, files, now, res, hist, textVars>>

\* The continuation after the await of the i-th call: the image is returned
\* and sent, or the loop goes on to the next model, or it ends in the throw.
stepContinue(attempt) ==
    LET i == procs.i
    IN  /\ IF attempt.ok
           THEN \E o \in {generateImageRespond(uploads, stepReferencePath,
                              Generated(attempt.imageBuffer, imagenModels[i],
                                        attempt.imageFormat, calls))} :
                    /\ uploads' = o.uploads
                    /\ genRes' = o.res
                    /\ calls' = calls
                    /\ procs' = StepAt("done", i)
           ELSE IF i < Len(imagenModels)
           THEN /\ calls' = Append(calls, PredictCall(imagenModels[i + 1],
                                       genReq.prompt, stepReferencePath))
                /\ procs' = StepAt("await", i + 1)
                /\ UNCHANGED <<uploads, genRes>>
           ELSE \E o \in {generateImageRespond(uploads, stepReferencePath,
                              Thrown("Image generation failed: "
                                     \o "All configured Imagen models failed.",
                                     calls))} :
                    /\ uploads' = o.uploads
                    /\ genRes' = o.res
                    /\ calls' = calls
                    /\ procs' = StepAt("done", i)
        /\ UNCHANGED <<clientVars, store, files, now, res, hist, genReq, textVars>>

\* The call in flight is answered.
StepSettle ==
    /\ procs.pc = "await"
    /\ procs.i \notin genReq.hangs
    /\ stepContinue(modelAttempt(genReq.responses[procs.i]))

\* The call in flight has had no answer when its timeout expires.
StepTimeout ==
    /\ procs.pc = "await"
    /\ timesOut(axiosTimeout, procs.i \in genReq.hangs)
    /\ stepContinue(timeoutAttempt)

NextSteps == (\E r \in StepRequests : StepReceive(r)) \/ StepSettle \/ StepTimeout

SpecSteps == InitSteps /\ [][NextSteps]_vars

\* Node's event loop runs the continuation of every settled promise, and
\* axios settles every call by its answer or by its timeout.
FairSpecSteps == SpecSteps /\ WF_vars(StepSettle) /\ WF_vars(StepTimeout)

(***************************************************************************)
(* The save modal of the client.                                           *)
(***************************************************************************)
\* What the user types into the SKU input.
SkuInputs == {"", " ", "1001"}

serverVars == <<store, files, now, res, hist, genVars, procs>>

\* onChange of the SKU input.
TypeSku(v) ==
    /\ showSaveModal
    /\ skuInput' = v
    /\ UNCHANGED <<serverVars, isSaving, generatedImage, showSaveModal, sent, click>>

\* generateImage: setGeneratedImage(null) at its start, the blob URL at its end.
SetGeneratedImage(v) ==
    /\ generatedImage' = v
    /\ UNCHANGED <<serverVars, isSaving, skuInput, showSaveModal, sent, click>>

\* handleSaveClick: opens the modal when there is an image.
handleSaveClick ==
    /\ ~isSaving
    /\ generatedImage # Null
    /\ showSaveModal' = TRUE
    /\ UNCHANGED <<serverVars, isSaving, skuInput, generatedImage, sent, click>>

\* The close button of the modal.
CloseModal ==
    /\ showSaveModal
    /\ showSaveModal' = FALSE
    /\ UNCHANGED <<serverVars, isSaving, skuInput, generatedImage, sent, click>>

\* The button is rendered in the open modal and is not disabled.
CanClickConfirm ==
    /\ showSaveModal
    /\ ~isSaving
    /\ click.pc = "idle"
    /\ click.n < MaxClicks

\* handleConfirmSave up to its first await (part_001 lines 100-114).
handleConfirmSave ==
    /\ CanClickConfirm
    /\ IF ~Truthy(trim(skuInput)) \/ generatedImage = Null
       THEN /\ click' = ClickAt("idle", click.n + 1, 0, "", Null)
            /\ UNCHANGED isSaving
       ELSE /\ isSaving' = TRUE
            /\ click' = ClickAt("convert", click.n + 1, 1, skuInput, generatedImage)
    /\ UNCHANGED <<serverVars, skuInput, generatedImage, showSaveModal, sent>>

\* The earlier handleConfirmSave up to its first await (part_000 lines
\* 95-100): nothing is tested before the first try block.
handleConfirmSaveLegacy ==
    /\ CanClickConfirm
    /\ isSaving' = TRUE
    /\ click' = ClickAt("convert", click.n + 1, 1, skuInput, generatedImage)
    /\ UNCHANGED <<serverVars, skuInput, generatedImage, showSaveModal, sent>>

\* convertBlobToDataURL resolves and fetch is called.
ConvertResolved ==
    /\ click.pc = "convert"
    /\ sent' = Append(sent, SaveFetch(click.n, click.sku, "Wax",
                                      blobDataUrl(click.image)))
    /\ click' = [click EXCEPT !.pc = "fetch"]
    /\ UNCHANGED <<serverVars, isSaving, skuInput, generatedImage, showSaveModal>>

\* After finally of part_001 (line 134) the handler returns.
afterFinally ==
    /\ isSaving' = FALSE
    /\ click' = [click EXCEPT !.pc = "idle"]

\* After the first finally of part_000 (line 136) the handler goes on: the
\* tests of lines 138-145 on the captured skuInput and generatedImage, then
\* the second try block; after the second finally (line 179) it returns.
afterFinallyLegacy ==
    IF click.block = 1 /\ Truthy(trim(click.sku)) /\ click.image # Null
    THEN /\ isSaving' = TRUE
         /\ click' = [click EXCEPT !.pc = "convert", !.block = 2]
    ELSE /\ isSaving' = FALSE
         /\ click' = [click EXCEPT !.pc = "idle"]

\* convertBlobToDataURL rejects: catch, finally.
ConvertRejected(legacy) ==
    /\ click.pc = "convert"
    /\ IF legacy THEN afterFinallyLegacy ELSE afterFinally
    /\ UNCHANGED <<serverVars, skuInput, generatedImage, showSaveModal, sent>>

\* fetch settles: a 200 closes the modal and clears the input, an error
\* status or a rejection goes to the catch block; then finally.
FetchSettled(legacy, ok) ==
    /\ click.pc = "fetch"
    /\ IF ok
       THEN showSaveModal' = FALSE /\ skuInput' = ""
       ELSE UNCHANGED <<showSaveModal, skuInput>>
    /\ IF legacy THEN afterFinallyLegacy ELSE afterFinally
    /\ UNCHANGED <<serverVars, generatedImage, sent>>

UserActs ==
    \/ \E v \in SkuInputs : TypeSku(v)
    \/ \E v \in {Null, "blob:1"} : SetGeneratedImage(v)
    \/ handleSaveClick
    \/ CloseModal

NextClient ==
    \/ UserActs
    \/ handleConfirmSave
    \/ ConvertResolved
    \/ ConvertRejected(FALSE)
    \/ \E ok \in BOOLEAN : FetchSettled(FALSE, ok)

SpecClient == Init /\ [][NextClient]_vars

NextClientLegacy ==
    \/ UserActs
    \/ handleConfirmSaveLegacy
    \/ ConvertResolved
    \/ ConvertRejected(TRUE)
    \/ \E ok \in BOOLEAN : FetchSettled(TRUE, ok)

SpecClientLegacy == Init /\ [][NextClientLegacy]_vars

(***************************************************************************)
(* Properties.                                                             *)
(***************************************************************************)
\* The slots of the six that hold a value in a document.
FilledSlots(product) == {f \in SixSlots : Truthy(product[f])}

\* The requests that get as far as the slot validation of the image handler.
ReachesImageSlotCheck(sku, imageType, imageDataUrl) ==
    /\ sku \in DOMAIN store
    /\ Truthy(imageType)
    /\ startsWith(imageDataUrl, DataImagePrefix)
    /\ splitSecond(imageDataUrl, ",") # Undefined

\* C1: in every reachable state of a Product that started Pending with empty
\* slots, Status is 'Fulfilled' if and only if all six slots are non-empty
\* (so five filled slots never make it Fulfilled).
C1_FulfilledIffSixSlots ==
    \A s \in DOMAIN store :
        (store[s]["Status"] = "Fulfilled") <=> (FilledSlots(store[s]) = SixSlots)

\* C1 witness: a save succeeded and left exactly five of the six slots filled.
C1_Witness ==
    /\ res.status = 200
    /\ \E s \in DOMAIN store : Cardinality(FilledSlots(store[s])) = 5

\* C2: a save that fills one more slot finds the Product Pending and leaves
\* it Pending unless it is the sixth slot, and then it leaves it Fulfilled.
C2_FulfilledOnSixthSave ==
    [][\A s \in DOMAIN store :
          LET before == FilledSlots(store[s])
              after  == FilledSlots(store'[s])
          IN  (before # after /\ before \subseteq after) =>
                 /\ store[s]["Status"] = "Pending"
                 /\ store'[s]["Status"] =
                        IF after = SixSlots THEN "Fulfilled" ELSE "Pending"]_vars

\* C2 witness: the sixth save has just been answered.
C2_Witness ==
    /\ res.status = 200
    /\ res.product # <<>>
    /\ \E s \in DOMAIN store :
          /\ FilledSlots(store[s]) = SixSlots
          /\ store[s]["Status"] = "Fulfilled"
          /\ store[s]["Created At"] = now

\* C3: once a Product is Fulfilled no request, accepted or rejected, makes it
\* Pending again.
C3_StatusMonotonic ==
    [][\A s \in DOMAIN store :
          store[s]["Status"] = "Fulfilled" => store'[s]["Status"] = "Fulfilled"]_vars

\* C3 witness: a Product is Fulfilled and a later save to it was accepted.
C3_Witness ==
    /\ res.status = 200
    /\ \E s \in DOMAIN store :
          /\ store[s]["Status"] = "Fulfilled"
          /\ res.product = <<store[s]>>
          /\ store[s]["Created At"] < now

\* C4: Status and 'Created At' change only in the step that fills the sixth
\* slot of a Pending Product, which stamps the current time; a Fulfilled
\* Product keeps both.
C4_TransitionAtMostOnce ==
    [][\A s \in DOMAIN store :
          (\/ store'[s]["Status"] # store[s]["Status"]
           \/ store'[s]["Created At"] # store[s]["Created At"]) =>
             /\ store[s]["Status"] = "Pending"
             /\ store'[s]["Status"] = "Fulfilled"
             /\ FilledSlots(store[s]) # SixSlots
             /\ FilledSlots(store'[s]) = SixSlots
             /\ store'[s]["Created At"] = now]_vars

\* C4 witness: a Fulfilled Product whose stamp is older than the clock has
\* answered a request since.
C4_Witness ==
    /\ res.status # 0
    /\ \E s \in DOMAIN store :
          /\ store[s]["Status"] = "Fulfilled"
          /\ store[s]["Created At"] > 0
          /\ store[s]["Created At"] < now

\* C5: for a stored Product after any slot write, the check-and-transition
\* applied twice gives the document that applying it once gives (Status and
\* timestamp alike, whatever the clock shows the second time), and it leaves
\* a Fulfilled document as it is.
C5_RecomputeIdempotent ==
    \A s \in DOMAIN store, t1 \in 1..MaxClock, t2 \in 1..MaxClock :
        \A d \in {store[s]} \cup {[store[s] EXCEPT ![f] = "v"] : f \in SixSlots} :
            /\ recomputeStatus(recomputeStatus(d, t1), t2) = recomputeStatus(d, t1)
            /\ d["Status"] = "Fulfilled" => recomputeStatus(d, t1) = d

\* C5 witness: a slot write to a stored Product makes the check-and-transition
\* fire, at a time other than the stamp a second application would use.
C5_Witness ==
    \E s \in DOMAIN store, f \in SixSlots :
        LET d == [store[s] EXCEPT ![f] = "v"]
        IN  /\ recomputeStatus(d, now) # d
            /\ now < MaxClock

\* C7: a save request whose type maps to no slot is never accepted and leaves
\* every Product as it was; when it gets as far as the slot validation it is
\* answered 400 'Invalid imageType' / 'Invalid descType'.
C7_InvalidSlotRejected ==
    /\ \A sku \in RequestSkus, imageType \in ImageTypes \ {"Wax", "Cast", "Final"},
          imageDataUrl \in ImageDataUrls, fault \in Faults :
          \A o \in {updateProductImage(store, files, now, sku, imageType,
                                       imageDataUrl, fault)} :
              /\ o.res.status # 200
              /\ o.store = store
              /\ (/\ ReachesImageSlotCheck(sku, imageType, imageDataUrl)
                  /\ fault \in {"none", "save"}) =>
                     /\ o.res.status = 400
                     /\ o.res.error = "Invalid imageType: " \o imageType
    /\ \A sku \in RequestSkus, descType \in DescTypes \ {"Wax", "Cast", "Final"},
          description \in Descriptions, fault \in Faults :
          \A o \in {updateProductDescription(store, files, now, sku, descType,
                                             description, fault)} :
              /\ o.res.status # 200
              /\ o.store = store
              /\ (/\ sku \in DOMAIN store
                  /\ Truthy(descType) /\ Truthy(description)
                  /\ fault \in {"none", "save"}) =>
                     /\ o.res.status = 400
                     /\ o.res.error = "Invalid descType: " \o descType

\* C7 witness: a request was answered 'Invalid imageType' after some slot of
\* the Product had been filled.
C7_Witness ==
    /\ res.status = 400
    /\ res.error = "Invalid imageType: Pre-Image"
    /\ \E s \in DOMAIN store : FilledSlots(store[s]) # {}

\* C8: a save request with all its fields whose sku is not in the collection
\* is answered 404 (unless the lookup itself fails) and leaves the collection
\* without a document for that sku.
C8_UnknownSkuNotFound ==
    /\ \A sku \in RequestSkus \ (DOMAIN store \cup {0}),
          imageType \in ImageTypes \ {""},
          imageDataUrl \in ImageDataUrls \ {""}, fault \in Faults \ {"findOne"} :
          \A o \in {updateProductImage(store, files, now, sku, imageType,
                                       imageDataUrl, fault)} :
              /\ o.res.status = 404
              /\ sku \notin DOMAIN o.store
              /\ o.store = store
    /\ \A sku \in RequestSkus \ (DOMAIN store \cup {0}),
          descType \in DescTypes \ {""},
          description \in Descriptions \ {""}, fault \in Faults \ {"findOne"} :
          \A o \in {updateProductDescription(store, files, now, sku, descType,
                                             description, fault)} :
              /\ o.res.status = 404
              /\ sku \notin DOMAIN o.store
              /\ o.store = store

\* C8 witness: a request for an unknown sku has been answered 404.
C8_Witness ==
    /\ res.status = 404
    /\ res.error = "Product with SKU 2002 not found."
    /\ 2002 \notin DOMAIN store

\* C9: a request that is not answered 200 leaves the collection and the
\* image directory as they were.
C9_NoPartialCommit ==
    [][res'.status # 200 => (store' = store /\ files' = files)]_vars

\* C10: when the image write fails, the request is answered 500 and neither
\* the collection nor the image directory changes.
C10_WriteFailureAborts ==
    \A sku \in DOMAIN store, imageType \in ImageTypes \ {""},
       imageDataUrl \in ImageDataUrls \ {""} :
        ReachesImageSlotCheck(sku, imageType, imageDataUrl) =>
            \A o \in {updateProductImage(store, files, now, sku, imageType,
                                         imageDataUrl, "writeFileSync")} :
                /\ o.res.status = 500
                /\ o.res.product = <<>>
                /\ o.store = store
                /\ o.files = files

\* C10 witness: a request whose write failed has been answered, for a Product
\* one save short of fulfillment.
C10_Witness ==
    /\ res.status = 500
    /\ res.error = "Failed to save image: write failed"
    /\ \E s \in DOMAIN store : Cardinality(FilledSlots(store[s])) = 5

\* C6: the fulfillment check does not read 'Pre-Image URL': a Product whose
\* six slots are filled is Fulfilled whether or not it has a Pre-Image URL.
C6_PreImageNotRequired ==
    \A s \in DOMAIN store :
        FilledSlots(store[s]) = SixSlots => store[s]["Status"] = "Fulfilled"

\* C11: an image save whose payload does not begin with 'data:image/' is
\* answered 400 'Invalid imageDataUrl format' whether or not its sku is in
\* the collection (the payload is validated before the lookup).
C11_BadPrefixRejectedBeforeLookup ==
    \A sku \in RequestSkus \ {0}, imageType \in ImageTypes \ {""},
       imageDataUrl \in {u \in ImageDataUrls \ {""} :
                            ~startsWith(u, DataImagePrefix)} :
        \A o \in {updateProductImage(store, files, now, sku, imageType,
                                     imageDataUrl, "none")} :
            /\ o.res.status = 400
            /\ o.res.error = "Invalid imageDataUrl format"

\* The slot a description type names, written out.
DescSlotOf(descType) ==
    CASE descType = "Wax"   -> "Wax Description"
      [] descType = "Cast"  -> "Cast Description"
      [] descType = "Final" -> "Final Description"

\* C18: a description save that lacks sku, descType or description is
\* answered 400 without a lookup (a failing lookup makes no difference); one
\* with all three for a stored sku and a type of Wax, Cast or Final is
\* answered 200 with the saved document, in which the slot
\* '<descType> Description' holds the submitted text, Status is Fulfilled
\* exactly if it was or all six slots are now filled, and every other field
\* but the fulfillment stamp is as before.
C18_DescriptionSave ==
    /\ \A sku \in RequestSkus, descType \in DescTypes,
          description \in Descriptions, fault \in {"none", "findOne"} :
          (sku = 0 \/ descType = "" \/ description = "") =>
             \A o \in {updateProductDescription(store, files, now, sku, descType,
                                                description, fault)} :
                 /\ o.res.status = 400
                 /\ o.res.error = "SKU, descType, and description are required"
                 /\ o.store = store
    /\ \A sku \in DOMAIN store, descType \in {"Wax", "Cast", "Final"},
          description \in Descriptions \ {""} :
          \A o \in {updateProductDescription(store, files, now, sku, descType,
                                             description, "none")} :
              /\ o.res.status = 200
              /\ o.res.product = <<o.store[sku]>>
              /\ DOMAIN o.store = DOMAIN store
              /\ \A s \in DOMAIN store \ {sku} : o.store[s] = store[s]
              /\ o.files = files
              /\ o.store[sku][DescSlotOf(descType)] = description
              /\ \A f \in SchemaPaths \ {DescSlotOf(descType), "Status", "Created At"} :
                    o.store[sku][f] = store[sku][f]
              /\ o.store[sku]["Status"] =
                    IF \/ store[sku]["Status"] = "Fulfilled"
                       \/ FilledSlots(o.store[sku]) = SixSlots
                    THEN "Fulfilled" ELSE "Pending"
              /\ o.store[sku]["Created At"] =
                    IF o.store[sku]["Status"] # store[sku]["Status"]
                    THEN now ELSE store[sku]["Created At"]

\* C18 witness: a description save has been answered 200 with the saved
\* document, whose slot holds the submitted text, and a save without its
\* text would be turned away now.
C18_Witness ==
    /\ res.status = 200
    /\ \E s \in DOMAIN store :
          /\ res.product = <<store[s]>>
          /\ store[s]["Cast Description"] = "a ring"
          /\ ~Truthy(store[s]["Cast Image URL"])
          /\ updateProductDescription(store, files, now, s, "Cast", "",
                                      "findOne").res.status = 400

\* A predict call succeeds when it is answered with at least one prediction
\* that carries a base64 image payload.
Succeeds(response) ==
    /\ ~response.rejected
    /\ Len(response.predictions) > 0
    /\ Truthy(response.predictions[1].bytesBase64Encoded)

\* The last generate-image request had a prompt and found a key configured,
\* and it has been answered.
GenerationRan ==
    /\ genRes.status # 0
    /\ Truthy(genReq.prompt)
    /\ Truthy(genReq.apiKey)

\* The error text of a request whose models all failed.
ExhaustedError ==
    "Failed to generate image: Image generation failed: "
        \o "All configured Imagen models failed."

\* C13: a generate-image request whose prompt is missing or empty is answered
\* 400 'Prompt is required' and makes no outbound call, whatever else it
\* carries.
C13_MissingPromptRejected ==
    (genRes.status # 0 /\ ~Truthy(genReq.prompt)) =>
        /\ genRes.status = 400
        /\ genRes.error = "Prompt is required"
        /\ genRes.body = <<>>
        /\ calls = <<>>

\* C13 witness: a request with an empty prompt, a key and a model that would
\* have answered with an image has been turned away.
C13_Witness ==
    /\ genRes.status = 400
    /\ genReq.prompt = ""
    /\ genReq.apiKey = "key"
    /\ genReq.originalname # Null
    /\ \E i \in 1..Len(imagenModels) : Succeeds(genReq.responses[i])

\* C14: the calls of a request go to the configured models in list order,
\* each at most once; model i is called if and only if every model before it
\* was called and failed; and when some model succeeds the request is
\* answered with the image and the id of the first one that does, and no
\* later model is called.
C14_ModelsInOrder ==
    GenerationRan =>
        /\ Len(calls) <= Len(imagenModels)
        /\ \A k \in 1..Len(calls) : calls[k].model = imagenModels[k]
        /\ \A i \in 1..Len(imagenModels) :
              (i <= Len(calls)) <=>
                  (\A j \in 1..(i - 1) : ~Succeeds(genReq.responses[j]))
        /\ \A i \in 1..Len(imagenModels) :
              (/\ Succeeds(genReq.responses[i])
               /\ \A j \in 1..(i - 1) : ~Succeeds(genReq.responses[j])) =>
                  /\ genRes.status = 200
                  /\ genRes.modelUsed = imagenModels[i]
                  /\ genRes.body =
                       BufferFrom(genReq.responses[i].predictions[1].bytesBase64Encoded)
                  /\ Len(calls) = i

\* C14 witness: the first model failed, the second was called and its image
\* was returned.
C14_Witness ==
    /\ genRes.status = 200
    /\ Len(calls) = 2
    /\ genRes.modelUsed = imagenModels[2]
    /\ ~genReq.responses[1].rejected

C16_UploadRemoved ==
    genRes.status # 0 => uploads = {}

\* C17: when every model of the image API fails for a request with a prompt,
\* the request is still answered with an image.
C17_PlaceholderOnFailure ==
    (/\ genRes.status # 0
     /\ Truthy(genReq.prompt)
     /\ \A i \in 1..Len(imagenModels) : ~Succeeds(genReq.responses[i])) =>
        /\ genRes.status = 200
        /\ genRes.body # <<>>

\* The files of the image directory that belong to a slot of a Product, and
\* those of them with a given format.
FilesOfSlot(fs, sku, imageType) ==
    {n \in DOMAIN fs : startsWith(n, ToString(sku) \o "_" \o imageType \o ".")}
FilesOfFormat(fs, sku, imageType, format) ==
    {n \in FilesOfSlot(fs, sku, imageType) :
        /\ Len(n) > Len(format)
        /\ SubSeq(n, Len(n) - Len(format), Len(n)) = "." \o format}

\* The accepted saves before the last one that went to the same slot of the
\* same Product.
EarlierSameSlot ==
    {i \in 1..(Len(hist) - 1) :
        /\ hist[i].sku = hist[Len(hist)].sku
        /\ hist[i].imageType = hist[Len(hist)].imageType}

\* C12 as stated: right after an accepted image save, every earlier accepted
\* save to the same (sku, imageType) got the same URL, whatever the two
\* payloads were, the slot holds that URL, and the image directory holds
\* exactly one file for that (sku, imageType), with the bytes of this save.
C12_SameNameAnyPayload ==
    (res.status = 200 /\ Len(hist) > 0) =>
        \A last \in {hist[Len(hist)]} :
            /\ \A i \in EarlierSameSlot : hist[i].url = last.url
            /\ store[last.sku][last.imageType \o " Image URL"] = last.url
            /\ Cardinality(FilesOfSlot(files, last.sku, last.imageType)) = 1
            /\ \A n \in FilesOfSlot(files, last.sku, last.imageType) :
                  files[n] = BufferFrom(last.base64)

\* C12 amended: right after an accepted image save, every earlier accepted
\* save to the same (sku, imageType) with the same image format got the same
\* URL, the slot holds that URL, and the image directory holds exactly one
\* file for that (sku, imageType) and format, with the bytes of this save.
C12_SameNameSameFormat ==
    (res.status = 200 /\ Len(hist) > 0) =>
        \A last \in {hist[Len(hist)]} :
            /\ \A i \in EarlierSameSlot :
                  hist[i].format = last.format => hist[i].url = last.url
            /\ store[last.sku][last.imageType \o " Image URL"] = last.url
            /\ Cardinality(FilesOfFormat(files, last.sku, last.imageType,
                                         last.format)) = 1
            /\ \A n \in FilesOfFormat(files, last.sku, last.imageType,
                                       last.format) :
                  files[n] = BufferFrom(last.base64)

\* C12 witness: two saves to one slot with one format and different bytes
\* have been accepted, the second one last.
C12_Witness ==
    /\ res.status = 200
    /\ Len(hist) >= 2
    /\ \E i \in EarlierSameSlot :
          /\ hist[i].format = hist[Len(hist)].format
          /\ hist[i].base64 # hist[Len(hist)].base64

\* C19: no request, generate or save, accepted or rejected, adds a Product
\* to the collection or takes one away, and every Product keeps its SKU.
C19_ProductSetConstant ==
    [][/\ DOMAIN store' = DOMAIN store
       /\ \A s \in DOMAIN store :
             /\ store[s]["SKU"] = s
             /\ store'[s]["SKU"] = s]_vars

\* C19 witness: an image has been generated, a slot of the stored Product
\* has been filled, and a save for an unknown SKU has been turned away.
C19_Witness ==
    /\ genRes.status = 200
    /\ res.status = 404
    /\ \E s \in DOMAIN store : FilledSlots(store[s]) # {}
    /\ DOMAIN store = StoredSkus

\* The slot a save request writes.
SlotOfRequest(req) ==
    IF req.endpoint = "image"
    THEN CASE req.type = "Wax"   -> "Wax Image URL"
           [] req.type = "Cast"  -> "Cast Image URL"
           [] req.type = "Final" -> "Final Image URL"
    ELSE CASE req.type = "Wax"   -> "Wax Description"
           [] req.type = "Cast"  -> "Cast Description"
           [] req.type = "Final" -> "Final Description"

\* The value a request answered 200 has written to its slot, as its response
\* shows it.
Written(p) == procs[p].res.product[1][SlotOfRequest(procs[p].req)]

\* Two requests for one Product and two different slots have both been
\* answered 200.
BothSaved(p, q) ==
    /\ p # q
    /\ procs[p].pc = "done" /\ procs[p].res.status = 200
    /\ procs[q].pc = "done" /\ procs[q].res.status = 200
    /\ procs[p].req.sku = procs[q].req.sku
    /\ SlotOfRequest(procs[p].req) # SlotOfRequest(procs[q].req)

\* Their finds and saves interleaved: each found the document before the
\* other had saved, so neither response shows the other's slot value.
Interleaved(p, q) ==
    /\ procs[p].res.product[1][SlotOfRequest(procs[q].req)] # Written(q)
    /\ procs[q].res.product[1][SlotOfRequest(procs[p].req)] # Written(p)

\* C20 as stated: when two saves to distinct slots of one Product have
\* interleaved their find and save steps and both have been answered 200, the
\* stored record lacks one of the two slot updates.
C20_InterleavedSavesLoseUpdate ==
    \A p \in ProcIds, q \in ProcIds :
        (BothSaved(p, q) /\ Interleaved(p, q)) =>
            \/ store[procs[p].req.sku][SlotOfRequest(procs[p].req)] # Written(p)
            \/ store[procs[q].req.sku][SlotOfRequest(procs[q].req)] # Written(q)

\* C20 amended: when two saves to distinct slots of one Product have both
\* been answered 200, however their find and save steps interleaved, the
\* stored record holds both slot updates.
C20_BothUpdatesStored ==
    \A p \in ProcIds, q \in ProcIds :
        BothSaved(p, q) =>
            /\ store[procs[p].req.sku][SlotOfRequest(procs[p].req)] = Written(p)
            /\ store[procs[q].req.sku][SlotOfRequest(procs[q].req)] = Written(q)

\* C20 witness: two saves to distinct slots of one Product have interleaved
\* and both have been answered 200.
C20_Witness ==
    \E p \in ProcIds, q \in ProcIds : BothSaved(p, q) /\ Interleaved(p, q)


\* C27: when no save request is in flight and the six slots of a stored
\* Product are all filled, its Status is 'Fulfilled', however the finds and
\* saves of the requests that filled them interleaved.
C27_FilledImpliesFulfilled ==
    (\A p \in ProcIds : procs[p].pc \in {"idle", "done"}) =>
        \A s \in DOMAIN store :
            FilledSlots(store[s]) = SixSlots => store[s]["Status"] = "Fulfilled"


\* C22: a request is answered 200 only in the step in which its save
\* completes, which comes after the step that assigned the slot and ran the
\* fulfillment block on the document; the document in the 200 response is
\* the record as it is stored once that save has completed; and a request
\* that ends without a completed save is not answered 200.
C22_ResponseAfterSave ==
    [][\A p \in ProcIds :
          /\ (procs[p].res.status # 200 /\ procs'[p].res.status = 200) =>
                /\ procs[p].pc = "saving"
                /\ procs[p].product # <<>>
                /\ procs[p].product[1][SlotOfRequest(procs[p].req)] # Null
                /\ procs[p].product[1] =
                      recomputeStatus(procs[p].product[1], now)
                /\ store'[procs[p].req.sku][SlotOfRequest(procs[p].req)] =
                      procs[p].product[1][SlotOfRequest(procs[p].req)]
                /\ procs'[p].res.product = <<store'[procs[p].req.sku]>>
          /\ (procs[p].pc = "finding" /\ procs'[p].pc = "done") =>
                procs'[p].res.status # 200]_vars


\* The accepted saves that went to a slot of a Product, by position.
SavesTo(sku, slot) ==
    {i \in 1..Len(hist) : hist[i].sku = sku /\ hist[i].slot = slot}

\* The latest of them.
LatestSaveTo(sku, slot) ==
    CHOOSE i \in SavesTo(sku, slot) : \A j \in SavesTo(sku, slot) : j <= i

\* C24: after any sequence of save requests handled one after another, every
\* one of the six slots of a Product holds the value of the latest accepted
\* save to it, and is empty when no accepted save went to it.
C24_LastWriteWins ==
    \A s \in DOMAIN store, slot \in SixSlots :
        store[s][slot] =
            IF SavesTo(s, slot) = {} THEN Null
            ELSE hist[LatestSaveTo(s, slot)].value

\* C24 witness: a slot has been saved twice with different values, a rejected
\* request came last, and another slot has never been saved.
C24_Witness ==
    /\ res.status = 400
    /\ \E s \in DOMAIN store, slot \in SixSlots :
          /\ Cardinality(SavesTo(s, slot)) >= 2
          /\ \E i \in SavesTo(s, slot) :
                hist[i].value # hist[LatestSaveTo(s, slot)].value
    /\ \E s \in DOMAIN store, slot \in SixSlots : SavesTo(s, slot) = {}


\* C26: a save that is answered 200 leaves every other Product as it was and
\* changes, in its own Product, nothing but its slot and, when it fills the
\* last of the six slots, Status and the timestamp; an image save changes no
\* description slot and a description save no image slot.
C26_FrameOfSave ==
    \A req \in FrameRequests :
        \A o \in {handle(store, files, now, req)} :
            o.res.status = 200 =>
                /\ DOMAIN o.store = DOMAIN store
                /\ \A s \in DOMAIN store \ {req.sku} : o.store[s] = store[s]
                /\ \A f \in SchemaPaths \ {SlotOfRequest(req), "Status", "Created At"} :
                      o.store[req.sku][f] = store[req.sku][f]
                /\ (\/ o.store[req.sku]["Status"] # store[req.sku]["Status"]
                    \/ o.store[req.sku]["Created At"] # store[req.sku]["Created At"]) =>
                      /\ FilledSlots(store[req.sku]) # SixSlots
                      /\ FilledSlots(o.store[req.sku]) = SixSlots
                /\ req.endpoint = "image" =>
                      \A f \in DescSlots : o.store[req.sku][f] = store[req.sku][f]
                /\ req.endpoint = "description" =>
                      \A f \in ImageSlots : o.store[req.sku][f] = store[req.sku][f]

\* C26 witness: both Products have filled slots, the first one five, and the
\* save that was just answered went to the second.
C26_Witness ==
    /\ res.status = 200
    /\ Cardinality(FilledSlots(store[1001])) = 5
    /\ res.product = <<store[3003]>>
    /\ FilledSlots(store[3003]) # {}
    /\ now > 1


\* C28: no save request changes the Pre-Image URL of a Product, and an image
\* save with imageType 'Pre-Image' for a stored Product is answered 400
\* 'Invalid imageType: Pre-Image' and writes nothing, neither to the
\* collection nor to the image directory.
C28_PreImageNeverWritten ==
    /\ \A sku \in DOMAIN store, imageType \in ImageTypes \ {""} :
          \A o \in {updateProductImage(store, files, now, sku, imageType,
                                       "data:image/png;base64,QQ==", "none")} :
              /\ o.store[sku]["Pre-Image URL"] = store[sku]["Pre-Image URL"]
              /\ imageType = "Pre-Image" =>
                    /\ o.res.status = 400
                    /\ o.res.error = "Invalid imageType: Pre-Image"
                    /\ o.store = store
                    /\ o.files = files
    /\ \A sku \in DOMAIN store, descType \in DescTypes \ {""} :
          \A o \in {updateProductDescription(store, files, now, sku, descType,
                                             "a ring", "none")} :
              o.store[sku]["Pre-Image URL"] = store[sku]["Pre-Image URL"]

(***************************************************************************)
(* The generate-description endpoint.                                      *)
(***************************************************************************)
\* A generate-description request has been answered.
TextAnswered == textRes.status # 0

\* The answer of the text model has no text to extract: there is no first
\* part, or the first part has no text or an empty one.
NoExtractableText(response) ==
    \/ ~candidateText(response).ok
    \/ ~Truthy(candidateText(response).text)

\* C21.  A generate-description request with a non-empty prompt (and a text
\* key) makes exactly one outbound call, to the one text model; a request
\* with a missing or empty prompt is answered 400 with no outbound call; the
\* request is answered 500 when the call errors or its answer has no
\* extractable text.
C21_OneCallOrFailure ==
    TextAnswered =>
        /\ ~Truthy(textReq.prompt) =>
              textRes.status = 400 /\ textCalls = <<>>
        /\ Truthy(textReq.prompt) /\ Truthy(textReq.apiKey) =>
              /\ textCalls = <<GenerateContentCall(TextModel, textReq.prompt)>>
              /\ (textReq.response.rejected \/ NoExtractableText(textReq.response))
                    => textRes.status = 500

\* The parts of C21 that do not depend on the shape of the answer, with the
\* failure read as "the call errors or the answer has no first part".
C21_OneCallOrFailureOfShape ==
    TextAnswered =>
        /\ ~Truthy(textReq.prompt) =>
              textRes.status = 400 /\ textCalls = <<>>
        /\ Truthy(textReq.prompt) /\ Truthy(textReq.apiKey) =>
              /\ textCalls = <<GenerateContentCall(TextModel, textReq.prompt)>>
              /\ (textReq.response.rejected \/ ~candidateText(textReq.response).ok)
                    => textRes.status = 500

\* C30.  Without the image key a generate-image request makes no outbound
\* call and is answered 500 with no image; without the text key a
\* generate-description request makes no outbound call and is answered 500
\* with no description.
C30_NoKeyNoCall ==
    /\ (genRes.status # 0 /\ Truthy(genReq.prompt) /\ ~Truthy(genReq.apiKey)) =>
          /\ calls = <<>>
          /\ genRes.status = 500
          /\ genRes.body = <<>>
    /\ (TextAnswered /\ Truthy(textReq.prompt) /\ ~Truthy(textReq.apiKey)) =>
          /\ textCalls = <<>>
          /\ textRes.status = 500
          /\ textRes.description = Undefined

\* Both endpoints have refused a request that the model would have served.
C30_Witness ==
    /\ genRes.status = 500 /\ Truthy(genReq.prompt) /\ ~Truthy(genReq.apiKey)
    /\ \E i \in 1..Len(genReq.responses) : modelAttempt(genReq.responses[i]).ok
    /\ textRes.status = 500 /\ Truthy(textReq.prompt) /\ ~Truthy(textReq.apiKey)
    /\ ~textReq.response.rejected /\ ~NoExtractableText(textReq.response)

(***************************************************************************)
(* The format of a generated image.                                        *)
(***************************************************************************)
\* The format the mapping of mime types gives: jpeg, else gif, else webp,
\* else png, and png when there is no mime type.
FormatOfMime(mimeType) ==
    IF mimeType = Undefined THEN "png"
    ELSE IF includes(mimeType, "jpeg") \/ includes(mimeType, "jpg") THEN "jpeg"
    ELSE IF includes(mimeType, "gif") THEN "gif"
    ELSE IF includes(mimeType, "webp") THEN "webp"
    ELSE "png"

\* The mime type declared by the answer of the model that served the request.
DeclaredMime ==
    LET i == CHOOSE j \in 1..Len(imagenModels) : imagenModels[j] = genRes.modelUsed
    IN  genReq.responses[i].predictions[1].mimeType

\* C25.  The format of a served image is the one the mapping gives for the
\* mime type its prediction declares, whatever the bytes of the image.
C25_FormatOfMimeOnly ==
    genRes.status = 200 =>
        genRes.contentType = "image/" \o FormatOfMime(DeclaredMime)

\* An image that starts with the JPEG magic bytes is served for a prediction
\* that declares no mime type.
C25_Witness ==
    /\ genRes.status = 200
    /\ DeclaredMime = Undefined
    /\ genRes.body = BufferFrom("/9j/4A==")

(***************************************************************************)
(* Termination of a generate-image request.                                *)
(***************************************************************************)
\* The request in hand has been answered.
StepAnswered == procs.pc = "done" /\ genRes.status \in {200, 400, 500}

\* The i-th model gives an image within the timeout.
Serves(i) == i \notin genReq.hangs /\ Succeeds(genReq.responses[i])

\* What holds of the attempts at every step: no more calls than models, no
\* model called twice, and, once a request with a prompt and a key is
\* answered, the image of the first model that serves one within its
\* timeout, or an error when no model does.
C23_Attempts ==
    procs.pc # "idle" =>
        /\ Len(calls) <= Len(imagenModels)
        /\ \A j, k \in 1..Len(calls) : j # k => calls[j].model # calls[k].model
        /\ (StepAnswered /\ Truthy(genReq.prompt) /\ Truthy(genReq.apiKey)) =>
              IF \E i \in 1..Len(imagenModels) : Serves(i)
              THEN LET first == CHOOSE i \in 1..Len(imagenModels) :
                                   Serves(i) /\ \A j \in 1..(i - 1) : ~Serves(j)
                   IN  /\ genRes.status = 200
                       /\ genRes.modelUsed = imagenModels[first]
                       /\ Len(calls) = first
              ELSE /\ genRes.status = 500
                   /\ Len(calls) = Len(imagenModels)

\* C23.  Every generate-image request is answered: each model is attempted
\* at most once, an attempt that outlasts its timeout counts as a failure
\* and the next model is tried, and after at most Len(imagenModels) attempts
\* the request is answered with an image or with an error.
C23_EveryRequestAnswered ==
    /\ [](C23_Attempts)
    /\ (procs.pc = "await") ~> StepAnswered

\* The first call timed out and the second model served the image.
C23_Witness ==
    /\ StepAnswered
    /\ 1 \in genReq.hangs
    /\ genRes.status = 200
    /\ Len(calls) = 2

(***************************************************************************)
(* The Confirm Save button of the client.                                  *)
(***************************************************************************)
\* The requests the n-th click has sent.
SentBy(n) == {i \in 1..Len(sent) : sent[i].click = n}

\* C29.  A click on Confirm Save sends at most one update-product-image
\* request, and none with a blank SKU or without a generated image; isSaving
\* is true while the save is in flight and false once it has settled.
C29_OneSavePerClick ==
    /\ \A n \in 1..MaxClicks : Cardinality(SentBy(n)) <= 1
    /\ \A i \in 1..Len(sent) :
          /\ Truthy(trim(sent[i].sku))
          /\ sent[i].imageDataUrl = blobDataUrl("blob:1")
    /\ click.pc \in {"convert", "fetch"} => isSaving
    /\ click.pc = "idle" => ~isSaving

\* A click has sent its request and the save has settled.
C29_Witness ==
    /\ click.pc = "idle"
    /\ click.n = 1
    /\ Cardinality(SentBy(1)) = 1
    /\ ~isSaving

====
